---- MODULE Spec2Model ----
(***************************************************************************)
(* A model of the workbench store of gewal0815/bolt:                       *)
(*   app/lib/stores/workbench.ts   WorkbenchStore                          *)
(*   app/lib/persistence/db.ts     the IndexedDB-backed chat/file history   *)
(* The EditorStore, the FilesStore and the ActionRunner the store composes *)
(* are modelled from the specification (sections 3 and 4).                 *)
(***************************************************************************)
EXTENDS Integers, Sequences, FiniteSets, Bags, TLC

(***************************************************************************)
(* Value domains                                                           *)
(***************************************************************************)
\* A path is the sequence of its segments: /home/project/a.ts is
\* <<"home", "project", "a.ts">>.
ProjectRoot == <<"home", "project">>

FileNames == {"a.ts", "b.ts"}

Contents == {"x", "y"}

\* `/home/project/${file.name}`
FilePath(name) == ProjectRoot \o <<name>>

\* `/home/project/${relativePath}` of an archive entry
ArchivePath(relativePath) == ProjectRoot \o relativePath

\* the paths of the files uploaded one by one
UploadPaths == {FilePath(n) : n \in FileNames}

\* the keys the FileMap is followed at: the uploaded files, a folder and a
\* file inside it
Paths == UploadPaths \cup {ArchivePath(<<"src">>), ArchivePath(<<"src", "a.ts">>)}

\* filePath: string | undefined  (undefined is the empty path)
NoPath == <<>>

\* a FileMap slot that holds no entry (Record<string, Dirent | undefined>)
NoDirent == [type |-> "undefined"]

FileDirent(c) == [type |-> "file", content |-> c, isBinary |-> FALSE]

FolderDirent == [type |-> "folder"]

BinaryDirent == [type |-> "file", content |-> "", isBinary |-> TRUE]

\* an edit buffer slot nothing was written to
NoEdit == "<no edit>"

\* JavaScript's undefined where a string is expected
Undefined == "<undefined>"

(***************************************************************************)
(* Bounds                                                                  *)
(***************************************************************************)
\* saveFile activations suspended on the file write at the same time
MaxPendingSaves == 1

\* handleFileUpload continuations suspended on the history store at once
MaxPendingUploads == 1

\* records the fileHistory collection may hold
MaxHistory == 4

\* init()/loadFilesFromHistory() calls, the constructor's included
MaxInitCalls == 2

\* actions a runner is handed
MaxQueue == 1

\* handleProjectUpload calls
MaxProjectUploads == 1

\* records the chats collection may hold
MaxChats == 2

\* handleFileUpload calls whose FileReader is followed
MaxFileReaders == 2

\* getUrlId calls between two writes of the chats collection
MaxUrlIdCalls == 2

\* records saveFileInHistory is called for directly
MaxSnapshots == 2

VARIABLES
    files,            \* FilesStore.files: path -> Dirent | undefined
    fileOrder,        \* insertion order of the FileMap's keys
    editBuffer,       \* EditorStore: edit buffer keyed by path
    selectedFile,     \* EditorStore.selectedFile
    unsavedFiles,     \* WorkbenchStore.unsavedFiles (a Set, in insertion order)
    pendingSaves,     \* saveFile activations suspended at line 251
    filesLoadedFromHistory, \* WorkbenchStore.filesLoadedFromHistory
    loads,            \* loadFilesFromHistory activations, by call number
    uploads,          \* handleFileUpload continuations after the FileMap write (a bag)
    urlPath,          \* window.location: the segments of url.pathname
    chats,            \* IndexedDB object store 'chats'
    fileHistory,      \* IndexedDB object store 'fileHistory', by fileId
    artifacts,        \* WorkbenchStore.artifacts
    artifactIdList,   \* WorkbenchStore.artifactIdList
    runners,          \* the ActionRunner objects created so far
    projectUploads,   \* handleProjectUpload activations, by call number
    download,         \* the downloadZip activation and the archive it built
    issued,           \* the slugs getUrlId has returned since chats was last written
    saveAll,          \* the saveAllFiles activation: its snapshot and position
    fileReaders,      \* the FileReader of each handleFileUpload call, in call order
    last              \* the operation that ran last, its arguments and outcome

storeVars == <<files, fileOrder, editBuffer, selectedFile, unsavedFiles>>

historyVars == <<urlPath, chats, fileHistory>>

artifactVars == <<artifacts, artifactIdList, runners>>

archiveVars == <<projectUploads, download>>

callVars == <<saveAll, fileReaders>>

vars == <<files, fileOrder, editBuffer, selectedFile, unsavedFiles, pendingSaves,
          filesLoadedFromHistory, loads, uploads, urlPath, chats,
          fileHistory, artifacts, artifactIdList, runners, projectUploads,
          download, issued, saveAll, fileReaders, last>>

(***************************************************************************)
(* Sequences as insertion-ordered sets                                     *)
(***************************************************************************)
Range(s) == {s[i] : i \in 1..Len(s)}

\* Set.add: appends unless present
SetAdd(s, e) == IF e \in Range(s) THEN s ELSE Append(s, e)

\* Set.delete: removes, keeping the order of the rest
SetDelete(s, e) == SelectSeq(s, LAMBDA v : v # e)

(***************************************************************************)
(* FilesStore and EditorStore                                              *)
(***************************************************************************)
\* FilesStore.getFile: the entry when it is a file, undefined otherwise
GetFile(fm, p) == IF p \in Paths /\ fm[p].type = "file" THEN fm[p] ELSE NoDirent

\* files.setKey(path, dirent)
SetKey(fm, p, dirent) == [fm EXCEPT ![p] = dirent]

\* the position of a key set with setKey in Object.entries order
OrderAfterSetKey(order, p) == SetAdd(order, p)

\* FilesStore.filesCount
FilesCount(fm) == Cardinality({p \in Paths : fm[p].type = "file"})

\* EditorStore.documents: one document per file of the FileMap
HasDocument(fm, p) == p \in Paths /\ fm[p].type = "file"

\* document.value: the edit buffer's content when the path was edited, the
\* FileMap's content otherwise
DocumentValue(fm, buf, p) == IF buf[p] # NoEdit THEN buf[p] ELSE fm[p].content

\* EditorStore.currentDocument: documents[selectedFile]; NoPath when undefined
CurrentDocument(fm, sel) == IF sel # NoPath /\ HasDocument(fm, sel) THEN sel ELSE NoPath

\* EditorStore.updateFile(path, newContent): writes the edit buffer only
UpdateFile(fm, buf, p, c) == IF HasDocument(fm, p) THEN [buf EXCEPT ![p] = c] ELSE buf

\* the first file of the FileMap in Object.entries order
FirstFile(fm, order) ==
    LET fs == SelectSeq(order, LAMBDA p : fm[p].type = "file")
    IN  IF fs = <<>> THEN NoPath ELSE fs[1]

\* WorkbenchStore.setDocuments(files), run by the Workbench effect on every
\* change of the FileMap: the selection it leaves
SetDocuments(fm, order, sel) ==
    IF FilesCount(fm) > 0 /\ CurrentDocument(fm, sel) = NoPath
    THEN IF FirstFile(fm, order) # NoPath THEN FirstFile(fm, order) ELSE sel
    ELSE sel

(***************************************************************************)
(* The operation record: a history variable, read by the claims only       *)
(***************************************************************************)
\* arg is the argument a claim needs to know the call by, Undefined otherwise
Op(name, arg, result) == [op |-> name, arg |-> arg, result |-> result]

\* the record of a saveFile call: the path it was called for
SaveOp(filePath) ==
    [op |-> "saveFile", arg |-> Undefined, path |-> filePath, result |-> "ok"]

\* the record of a step of an archive upload: call is the upload's position in
\* projectUploads
ArchiveOp(name, call, result) ==
    [op |-> name, arg |-> Undefined, call |-> call, result |-> result]

\* what an edit of the current document found: no document, or its path in
\* the unsaved set or not
Found(fm, sel, unsaved) ==
    IF CurrentDocument(fm, sel) = NoPath
    THEN "noDocument"
    ELSE IF CurrentDocument(fm, sel) \in Range(unsaved) THEN "wasUnsaved" ELSE "wasClean"

(***************************************************************************)
(* Editing: setSelectedFile, setCurrentDocumentContent,                    *)
(* resetCurrentDocument                                                    *)
(***************************************************************************)
\* setSelectedFile(filePath)
SetSelectedFile(p) ==
    /\ selectedFile' = p
    /\ last' = Op("setSelectedFile", Undefined, "ok")
    /\ UNCHANGED <<files, fileOrder, editBuffer, unsavedFiles, pendingSaves,
                   filesLoadedFromHistory, loads, uploads>>
    /\ UNCHANGED <<historyVars, artifactVars, archiveVars, callVars, issued>>

\* setCurrentDocumentContent, lines 201-202: the edit leaves unsaved changes
UnsavedChanges(fm, p, newContent) ==
    LET originalContent == GetFile(fm, p)
    IN  originalContent.type = "file" /\ originalContent.content # newContent

\* a dirty flag that is set by an edit and never re-evaluated
UnsavedAfterEditSticky(unsaved, fm, p, newContent) ==
    IF UnsavedChanges(fm, p, newContent) THEN SetAdd(unsaved, p) ELSE unsaved

\* setCurrentDocumentContent, lines 208-224: the unsaved set after the edit
UnsavedAfterEdit(unsaved, fm, p, newContent) ==
    IF UnsavedChanges(fm, p, newContent) /\ p \in Range(unsaved)
    THEN unsaved
    ELSE IF UnsavedChanges(fm, p, newContent)
         THEN SetAdd(unsaved, p)
         ELSE SetDelete(unsaved, p)

\* the body of setCurrentDocumentContent(newContent), shared with
\* resetCurrentDocument, which calls it
EditCurrentDocument(newContent) ==
    LET filePath == CurrentDocument(files, selectedFile)
    IN  IF filePath = NoPath
        THEN UNCHANGED <<editBuffer, unsavedFiles>>
        ELSE /\ editBuffer' = UpdateFile(files, editBuffer, filePath, newContent)
             /\ unsavedFiles' = UnsavedAfterEdit(unsavedFiles, files, filePath, newContent)

SetCurrentDocumentContent(newContent) ==
    /\ EditCurrentDocument(newContent)
    /\ last' = Op("setCurrentDocumentContent", newContent,
                  Found(files, selectedFile, unsavedFiles))
    /\ UNCHANGED <<files, fileOrder, selectedFile, pendingSaves,
                   filesLoadedFromHistory, loads, uploads>>
    /\ UNCHANGED <<historyVars, artifactVars, archiveVars, callVars, issued>>

\* a reset that restores the document's own value instead of the file's
ResetContentFromDocument(fm, sel) ==
    LET filePath == CurrentDocument(fm, sel)
    IN  IF filePath = NoPath THEN Undefined ELSE DocumentValue(fm, editBuffer, filePath)

\* resetCurrentDocument, lines 270-281: the content it restores, or Undefined
\* when it returns early
ResetContent(fm, sel) ==
    LET filePath == CurrentDocument(fm, sel)
    IN  IF filePath = NoPath
        THEN Undefined
        ELSE IF GetFile(fm, filePath).type # "file"
             THEN Undefined
             ELSE GetFile(fm, filePath).content

ResetCurrentDocument ==
    /\ IF ResetContent(files, selectedFile) = Undefined
       THEN UNCHANGED <<editBuffer, unsavedFiles>>
       ELSE EditCurrentDocument(ResetContent(files, selectedFile))
    /\ last' = Op("resetCurrentDocument", Undefined,
                  Found(files, selectedFile, unsavedFiles))
    /\ UNCHANGED <<files, fileOrder, selectedFile, pendingSaves,
                   filesLoadedFromHistory, loads, uploads>>
    /\ UNCHANGED <<historyVars, artifactVars, archiveVars, callVars, issued>>

(***************************************************************************)
(* Saving: saveFile, saveCurrentDocument                                   *)
(***************************************************************************)
\* saveFile, lines 244-251: the activation suspended on
\* FilesStore.saveFile(filePath, document.value), or nothing when the path has
\* no document
SaveRequest(fm, buf, p) ==
    IF HasDocument(fm, p)
    THEN {[path |-> p, value |-> DocumentValue(fm, buf, p)]}
    ELSE {}

\* a save that leaves the unsaved set alone
UnsavedAfterSaveKept(unsaved, p) == unsaved

\* saveFile, lines 253-256: the unsaved set once the write has finished
UnsavedAfterSave(unsaved, p) == SetDelete(unsaved, p)

\* FilesStore.saveFile: the FileMap once the write has finished
FilesAfterSave(fm, s) == SetKey(fm, s.path, FileDirent(s.value))

\* saveFile(filePath) up to its await
SaveFile(p) ==
    /\ Cardinality(pendingSaves \cup SaveRequest(files, editBuffer, p)) <= MaxPendingSaves
    /\ pendingSaves \cap SaveRequest(files, editBuffer, p) = {}
    /\ pendingSaves' = pendingSaves \cup SaveRequest(files, editBuffer, p)
    /\ last' = SaveOp(p)
    /\ UNCHANGED <<storeVars, filesLoadedFromHistory, loads, uploads>>
    /\ UNCHANGED <<historyVars, artifactVars, archiveVars, callVars, issued>>

\* saveCurrentDocument(): saveFile(currentDocument.filePath)
SaveCurrentDocument ==
    LET cur == CurrentDocument(files, selectedFile)
        req == IF cur = NoPath THEN {} ELSE SaveRequest(files, editBuffer, cur)
    IN  /\ Cardinality(pendingSaves \cup req) <= MaxPendingSaves
        /\ pendingSaves \cap req = {}
        /\ pendingSaves' = pendingSaves \cup req
        /\ last' = Op("saveCurrentDocument", Undefined, "ok")
        /\ UNCHANGED <<storeVars, filesLoadedFromHistory, loads, uploads>>
        /\ UNCHANGED <<historyVars, artifactVars, archiveVars, callVars, issued>>

\* saveFile after its await: the write has finished, the FileMap holds the
\* saved content and the path's unsaved flag is cleared
SaveFileResume(s) ==
    /\ s \in pendingSaves
    /\ pendingSaves' = pendingSaves \ {s}
    /\ files' = FilesAfterSave(files, s)
    /\ fileOrder' = OrderAfterSetKey(fileOrder, s.path)
    /\ unsavedFiles' = UnsavedAfterSave(unsavedFiles, s.path)
    /\ selectedFile' = SetDocuments(files', fileOrder', selectedFile)
    /\ last' = Op("saveFile.resume", Undefined,
                  IF /\ last.op = "saveFile" /\ last.path = s.path
                     /\ s.value = DocumentValue(files, editBuffer, s.path)
                  THEN "uninterrupted"
                  ELSE "interleaved")
    /\ UNCHANGED <<editBuffer, filesLoadedFromHistory, loads, uploads>>
    /\ UNCHANGED <<historyVars, artifactVars, archiveVars, callVars, issued>>

\* saveFile when the awaited FilesStore.saveFile rejects: line 251 throws, the
\* activation ends before lines 253-256 and the caller sees the rejection
\* (Workbench.client.tsx attaches a catch to saveCurrentDocument for it)
SaveFileReject(s) ==
    /\ s \in pendingSaves
    /\ pendingSaves' = pendingSaves \ {s}
    /\ last' = Op("saveFile.reject", Undefined, "rejected")
    /\ UNCHANGED <<storeVars, filesLoadedFromHistory, loads, uploads>>
    /\ UNCHANGED <<historyVars, artifactVars, archiveVars, callVars, issued>>

(***************************************************************************)
(* Saving every unsaved file: saveAllFiles                                 *)
(***************************************************************************)
\* no saveAllFiles call so far
NoSaveAll == [pc |-> "idle", snapshot |-> <<>>, next |-> 0, value |-> Undefined]

\* the paths of a saveAllFiles activation that saveFile was called for
Attempted(a) ==
    SubSeq(a.snapshot, 1, IF a.next > Len(a.snapshot) THEN Len(a.snapshot) ELSE a.next)

\* the for-of loop of line 287 from position `from` of the snapshot: the first
\* path whose saveFile reaches its await (saveFile returns at once for a path
\* without a document), or past the end when there is none
RECURSIVE NextToSave(_, _, _)
NextToSave(fm, snapshot, from) ==
    IF from > Len(snapshot)
    THEN Len(snapshot) + 1
    ELSE IF HasDocument(fm, snapshot[from])
         THEN from
         ELSE NextToSave(fm, snapshot, from + 1)

\* the activation once the loop has moved to position n: suspended in the
\* saveFile of that path, holding the document value it passed to the write,
\* or finished
SaveAllAt(fm, buf, snapshot, n) ==
    IF n > Len(snapshot)
    THEN [pc |-> "done", snapshot |-> snapshot, next |-> n, value |-> Undefined]
    ELSE [pc |-> "saving", snapshot |-> snapshot, next |-> n,
          value |-> DocumentValue(fm, buf, snapshot[n])]

\* whether the loop's step follows straight on the previous one
Uninterrupted ==
    /\ last.op \in {"saveAllFiles", "saveAllFiles.resume"}
    /\ last.result = "uninterrupted"

\* saveAllFiles() up to the await of its first saveFile: the iterator of line
\* 287 is taken over the Set that unsavedFiles holds now
SaveAllFiles ==
    /\ saveAll.pc # "saving"
    /\ saveAll' = SaveAllAt(files, editBuffer, unsavedFiles,
                            NextToSave(files, unsavedFiles, 1))
    /\ last' = Op("saveAllFiles", Undefined, "uninterrupted")
    /\ UNCHANGED <<storeVars, pendingSaves, filesLoadedFromHistory, loads, uploads>>
    /\ UNCHANGED <<historyVars, artifactVars, archiveVars, fileReaders, issued>>

\* the awaited write of the current path has finished: saveFile clears the
\* path's flag (lines 253-256), the loop moves on and calls saveFile for the
\* next path in the same turn
SaveAllFilesResume ==
    /\ saveAll.pc = "saving"
    /\ LET p == saveAll.snapshot[saveAll.next]
           s == [path |-> p, value |-> saveAll.value]
       IN  /\ files' = FilesAfterSave(files, s)
           /\ fileOrder' = OrderAfterSetKey(fileOrder, p)
           /\ unsavedFiles' = UnsavedAfterSave(unsavedFiles, p)
           /\ selectedFile' = SetDocuments(files', fileOrder', selectedFile)
           /\ saveAll' = SaveAllAt(files', editBuffer, saveAll.snapshot,
                                   NextToSave(files', saveAll.snapshot, saveAll.next + 1))
    /\ last' = Op("saveAllFiles.resume", Undefined,
                  IF Uninterrupted THEN "uninterrupted" ELSE "interleaved")
    /\ UNCHANGED <<editBuffer, pendingSaves, filesLoadedFromHistory, loads, uploads>>
    /\ UNCHANGED <<historyVars, artifactVars, archiveVars, fileReaders, issued>>

\* the awaited write of the current path rejects: `await this.saveFile(filePath)`
\* of line 288 throws inside the loop, which has no try/catch, so saveAllFiles
\* rejects and the paths after the current one are never saved
SaveAllFilesReject ==
    /\ saveAll.pc = "saving"
    /\ saveAll' = [saveAll EXCEPT !.pc = "rejected"]
    /\ last' = Op("saveAllFiles.reject", Undefined, "rejected")
    /\ UNCHANGED <<storeVars, pendingSaves, filesLoadedFromHistory, loads, uploads>>
    /\ UNCHANGED <<historyVars, artifactVars, archiveVars, fileReaders, issued>>

(***************************************************************************)
(* The persisted history store (db.ts)                                     *)
(***************************************************************************)
\* primary keys a chat record may have
ChatKeys == {"1", "2", "x"}

\* no record under a key: store.get resolves undefined
NoChat == [id |-> Undefined, urlId |-> Undefined]

Chat(id, urlId) == [id |-> id, urlId |-> urlId]

\* a request's outcome
Resolved(v) == [status |-> "resolved", value |-> v]

Rejected == [status |-> "rejected", value |-> NoChat]

\* getMessagesById(db, chatId)
GetMessagesById(db, chatId) ==
    IF chatId = ""
    THEN Rejected
    ELSE IF chatId \in ChatKeys /\ db[chatId] # NoChat
         THEN Resolved(db[chatId])
         ELSE Resolved(NoChat)

\* getMessagesByUrlId(db, id): index('urlId').get(id)
GetMessagesByUrlId(db, id) ==
    IF \E k \in ChatKeys : db[k] # NoChat /\ db[k].urlId = id
    THEN Resolved(db[CHOOSE k \in ChatKeys : db[k] # NoChat /\ db[k].urlId = id])
    ELSE Resolved(NoChat)

\* getFilesByChatId(db, chatId): index('chatId').getAll(only(chatId)), in
\* fileId order
GetFilesByChatId(fh, chatId) == SelectSeq(fh, LAMBDA r : r.chatId = chatId)

\* a save that replaces the snapshot the chat has of the path
SaveFileInHistoryUpsert(fh, chatId, filePath, fileContent) ==
    IF \E n \in 1..Len(fh) : fh[n].chatId = chatId /\ fh[n].filePath = filePath
    THEN [n \in 1..Len(fh) |->
             IF fh[n].chatId = chatId /\ fh[n].filePath = filePath
             THEN [fh[n] EXCEPT !.fileContent = fileContent]
             ELSE fh[n]]
    ELSE Append(fh, [chatId |-> chatId, filePath |-> filePath, fileContent |-> fileContent])

\* saveFileInHistory(db, chatId, filePath, fileContent): store.add under the
\* next fileId
SaveFileInHistory(fh, chatId, filePath, fileContent) ==
    Append(fh, [chatId |-> chatId, filePath |-> filePath, fileContent |-> fileContent])

\* pathSegments[pathSegments.length - 1] of url.pathname.split('/')
LastSegment(pathSegments) == pathSegments[Len(pathSegments)]

(***************************************************************************)
(* Bootstrap: init, loadFilesFromHistory                                   *)
(***************************************************************************)
Activation(pc, candidate, entryId, outcome) ==
    [pc |-> pc, candidate |-> candidate, entryId |-> entryId, outcome |-> outcome]

Done(a, outcome) == [a EXCEPT !.pc = "done", !.outcome = outcome]

\* a load without its guard
NeverLoaded(flag) == FALSE

\* loadFilesFromHistory, line 75: the load has run already
AlreadyLoaded(flag) == flag

\* a load that does not check the URL's last segment
AnyChatId(chatId) == FALSE

\* loadFilesFromHistory, line 91: the URL holds no chat id
NoChatIdInUrl(chatId) == chatId = ""

\* a load that fetches the snapshots under the URL's candidate
SnapshotKeyFromUrl(a) == a.candidate

\* loadFilesFromHistory, line 108: the key the snapshots are fetched under
SnapshotKey(a) == a.entryId

\* init() / loadFilesFromHistory(), lines 69-81: up to `await openDatabase()`
LoadFilesFromHistory ==
    /\ Len(loads) < MaxInitCalls
    /\ IF AlreadyLoaded(filesLoadedFromHistory)
       THEN /\ loads' = Append(loads, Activation("returned", Undefined, Undefined, "guarded"))
            /\ UNCHANGED filesLoadedFromHistory
       ELSE /\ loads' = Append(loads, Activation("openDatabase", Undefined, Undefined, ""))
            /\ filesLoadedFromHistory' = TRUE
    /\ last' = Op("loadFilesFromHistory", Undefined, "ok")
    /\ UNCHANGED <<storeVars, pendingSaves, uploads, historyVars, artifactVars, archiveVars, callVars, issued>>

\* lines 81-97: openDatabase() has settled (db is undefined when it failed)
LoadOpenDatabase(i, opened) ==
    /\ i \in 1..Len(loads) /\ loads[i].pc = "openDatabase"
    /\ LET chatId == LastSegment(urlPath)
       IN  loads' = [loads EXCEPT ![i] =
               IF ~opened
               THEN Done(@, "unavailable")
               ELSE IF NoChatIdInUrl(chatId)
                    THEN Done(@, "nourl")
                    ELSE Activation("getMessagesById", chatId, Undefined, "")]
    /\ last' = Op("load.openDatabase", Undefined, "ok")
    /\ UNCHANGED <<storeVars, pendingSaves, filesLoadedFromHistory, uploads,
                   historyVars, artifactVars, archiveVars, callVars, issued>>

\* lines 97-100: getMessagesById has settled
LoadGetMessagesById(i) ==
    /\ i \in 1..Len(loads) /\ loads[i].pc = "getMessagesById"
    /\ LET r == GetMessagesById(chats, loads[i].candidate)
       IN  loads' = [loads EXCEPT ![i] =
               IF r.status = "rejected"
               THEN Done(@, "threw")
               ELSE IF r.value = NoChat
                    THEN [@ EXCEPT !.pc = "getMessagesByUrlId"]
                    ELSE [@ EXCEPT !.pc = "getFilesByChatId", !.entryId = r.value.id]]
    /\ last' = Op("load.getMessagesById", Undefined, "ok")
    /\ UNCHANGED <<storeVars, pendingSaves, filesLoadedFromHistory, uploads,
                   historyVars, artifactVars, archiveVars, callVars, issued>>

\* lines 100-108: getMessagesByUrlId has settled
LoadGetMessagesByUrlId(i) ==
    /\ i \in 1..Len(loads) /\ loads[i].pc = "getMessagesByUrlId"
    /\ LET r == GetMessagesByUrlId(chats, loads[i].candidate)
       IN  loads' = [loads EXCEPT ![i] =
               IF r.value = NoChat
               THEN Done(@, "nochat")
               ELSE [@ EXCEPT !.pc = "getFilesByChatId", !.entryId = r.value.id]]
    /\ last' = Op("load.getMessagesByUrlId", Undefined, "ok")
    /\ UNCHANGED <<storeVars, pendingSaves, filesLoadedFromHistory, uploads,
                   historyVars, artifactVars, archiveVars, callVars, issued>>

\* lines 115-129: files.forEach(setKey); the FileMap after the loop
RECURSIVE FilesAfterLoad(_, _)
FilesAfterLoad(fm, snapshots) ==
    IF snapshots = <<>>
    THEN fm
    ELSE FilesAfterLoad(
             SetKey(fm, Head(snapshots).filePath, FileDirent(Head(snapshots).fileContent)),
             Tail(snapshots))

RECURSIVE OrderAfterLoad(_, _)
OrderAfterLoad(order, snapshots) ==
    IF snapshots = <<>>
    THEN order
    ELSE OrderAfterLoad(OrderAfterSetKey(order, Head(snapshots).filePath), Tail(snapshots))

\* a loop that selects every file it writes
SelectedAfterLoadLast(snapshots) == snapshots[Len(snapshots)].filePath

\* lines 126-128: the file selected by the loop (index === 0)
SelectedAfterLoad(snapshots) == snapshots[1].filePath

\* lines 108-130: getFilesByChatId has settled
LoadGetFilesByChatId(i) ==
    /\ i \in 1..Len(loads) /\ loads[i].pc = "getFilesByChatId"
    /\ LET snapshots == GetFilesByChatId(fileHistory, SnapshotKey(loads[i]))
       IN  IF Len(snapshots) = 0
           THEN /\ loads' = [loads EXCEPT ![i] = Done(@, "nofiles")]
                /\ UNCHANGED storeVars
           ELSE /\ loads' = [loads EXCEPT ![i] = Done(@, "loaded")]
                /\ files' = FilesAfterLoad(files, snapshots)
                /\ fileOrder' = OrderAfterLoad(fileOrder, snapshots)
                /\ selectedFile' =
                       SetDocuments(files', fileOrder', SelectedAfterLoad(snapshots))
                /\ UNCHANGED <<editBuffer, unsavedFiles>>
    /\ last' = Op("load.getFilesByChatId", Undefined, "ok")
    /\ UNCHANGED <<pendingSaves, filesLoadedFromHistory, uploads, historyVars, artifactVars, archiveVars, callVars, issued>>

(***************************************************************************)
(* Upload of a single file: handleFileUpload                               *)
(***************************************************************************)
Upload(path, content, pc, candidate, entryId) ==
    [path |-> path, content |-> content, pc |-> pc, candidate |-> candidate,
     entryId |-> entryId]

\* the record of a handleFileUpload call: the path and content it wrote
UploadOp(filePath, fileContent) ==
    [op |-> "handleFileUpload", arg |-> Undefined, path |-> filePath,
     content |-> fileContent, result |-> "ok"]

\* an append under the URL's candidate
HistoryKeyFromUrl(u) == u.candidate

\* line 438: the chatId the snapshot is saved under, chatEntry.id
HistoryKey(u) == u.entryId

otherVarsOfUpload == <<editBuffer, unsavedFiles, pendingSaves, filesLoadedFromHistory,
                       loads, urlPath, chats, artifactVars,
    archiveVars, callVars, issued>>

\* handleFileUpload(file), lines 393-411: reader.readAsText(file) has read
\* `content` and reader.onload runs: the FileMap write and the selection, up
\* to `await openDatabase()`
HandleFileUpload(name, content) ==
    /\ BagCardinality(uploads) < MaxPendingUploads
    /\ Len(fileHistory) + BagCardinality(uploads) < MaxHistory
    /\ files' = SetKey(files, FilePath(name), FileDirent(content))
    /\ fileOrder' = OrderAfterSetKey(fileOrder, FilePath(name))
    /\ selectedFile' = SetDocuments(files', fileOrder', FilePath(name))
    /\ uploads' = uploads (+)
           SetToBag({Upload(FilePath(name), content, "openDatabase", Undefined, Undefined)})
    /\ last' = UploadOp(FilePath(name), content)
    /\ UNCHANGED <<fileHistory, otherVarsOfUpload>>

\* lines 411-427: openDatabase() has settled
UploadOpenDatabase(u, opened) ==
    /\ BagIn(u, uploads) /\ u.pc = "openDatabase"
    /\ LET chatId == LastSegment(urlPath)
       IN  uploads' = (uploads (-) SetToBag({u})) (+) SetToBag(
                IF ~opened \/ chatId = ""
                THEN {}
                ELSE {[u EXCEPT !.pc = "getMessagesById", !.candidate = chatId]})
    /\ last' = Op("upload.openDatabase", Undefined, IF opened THEN "ok" ELSE "failed")
    /\ UNCHANGED <<files, fileOrder, selectedFile, fileHistory, otherVarsOfUpload>>

\* lines 427-430: getMessagesById has settled
UploadGetMessagesById(u) ==
    /\ BagIn(u, uploads) /\ u.pc = "getMessagesById"
    /\ LET r == GetMessagesById(chats, u.candidate)
       IN  uploads' = (uploads (-) SetToBag({u})) (+) SetToBag(
                IF r.status = "rejected"
                THEN {}
                ELSE IF r.value = NoChat
                     THEN {[u EXCEPT !.pc = "getMessagesByUrlId"]}
                     ELSE {[u EXCEPT !.pc = "saveFileInHistory", !.entryId = r.value.id]})
    /\ last' = Op("upload.getMessagesById", Undefined, "ok")
    /\ UNCHANGED <<files, fileOrder, selectedFile, fileHistory, otherVarsOfUpload>>

\* lines 430-438: getMessagesByUrlId has settled
UploadGetMessagesByUrlId(u) ==
    /\ BagIn(u, uploads) /\ u.pc = "getMessagesByUrlId"
    /\ LET r == GetMessagesByUrlId(chats, u.candidate)
       IN  uploads' = (uploads (-) SetToBag({u})) (+) SetToBag(
                IF r.value = NoChat
                THEN {}
                ELSE {[u EXCEPT !.pc = "saveFileInHistory", !.entryId = r.value.id]})
    /\ last' = Op("upload.getMessagesByUrlId", Undefined, "ok")
    /\ UNCHANGED <<files, fileOrder, selectedFile, fileHistory, otherVarsOfUpload>>

\* lines 438-440: saveFileInHistory has settled
UploadSaveFileInHistory(u) ==
    /\ BagIn(u, uploads) /\ u.pc = "saveFileInHistory"
    /\ fileHistory' = SaveFileInHistory(fileHistory, HistoryKey(u), u.path, u.content)
    /\ uploads' = uploads (-) SetToBag({u})
    /\ last' = Op("upload.saveFileInHistory", Undefined, "ok")
    /\ UNCHANGED <<files, fileOrder, selectedFile, otherVarsOfUpload>>

(***************************************************************************)
(* The FileReader of an upload, and a reload of the page                   *)
(***************************************************************************)
\* a FileReader: "reading" from readAsText until its load event, "loaded" once
\* onload has run, "closed" when its page has been left since
Reader(name, content, state) == [name |-> name, content |-> content, state |-> state]

\* handleFileUpload(file), lines 393-395 and 443: the reader is created, gets
\* its onload handler and starts reading; the call returns
ReadAsText(name, content) ==
    /\ Len(fileReaders) < MaxFileReaders
    /\ fileReaders' = Append(fileReaders, Reader(name, content, "reading"))
    /\ last' = Op("readAsText", Undefined, "ok")
    /\ UNCHANGED <<storeVars, pendingSaves, filesLoadedFromHistory, loads, uploads>>
    /\ UNCHANGED <<historyVars, artifactVars, archiveVars, saveAll, issued>>

\* reader.onload, lines 396-411: the read of reader k has finished, whatever
\* reads were started before it; the handler writes the FileMap, selects the
\* file and stops at `await openDatabase()`
ReaderOnload(k) ==
    /\ k \in 1..Len(fileReaders) /\ fileReaders[k].state = "reading"
    /\ BagCardinality(uploads) < MaxPendingUploads
    /\ Len(fileHistory) + BagCardinality(uploads) < MaxHistory
    /\ LET filePath == FilePath(fileReaders[k].name)
           fileContent == fileReaders[k].content
       IN  /\ files' = SetKey(files, filePath, FileDirent(fileContent))
           /\ fileOrder' = OrderAfterSetKey(fileOrder, filePath)
           /\ selectedFile' = SetDocuments(files', fileOrder', filePath)
           /\ uploads' = uploads (+)
                  SetToBag({Upload(filePath, fileContent, "openDatabase", Undefined, Undefined)})
           /\ last' = UploadOp(filePath, fileContent)
    /\ fileReaders' = [fileReaders EXCEPT ![k].state = "loaded"]
    /\ UNCHANGED <<editBuffer, unsavedFiles, pendingSaves, filesLoadedFromHistory, loads>>
    /\ UNCHANGED <<historyVars, artifactVars, archiveVars, saveAll, issued>>

\* the page is loaded again at the same URL once its uploads have settled: the
\* module constructs a new WorkbenchStore (empty stores, lines 40-53), whose
\* constructor calls init() (lines 56-71); the database outlives the page, the
\* readers of the page left behind never fire again
Reload ==
    /\ uploads = EmptyBag
    /\ \A k \in 1..Len(fileReaders) : fileReaders[k].state # "reading"
    /\ \A i \in 1..Len(loads) : loads[i].pc \in {"done", "returned"}
    /\ files' = [p \in Paths |-> NoDirent]
    /\ fileOrder' = <<>>
    /\ selectedFile' = NoPath
    /\ editBuffer' = [p \in Paths |-> NoEdit]
    /\ unsavedFiles' = <<>>
    /\ pendingSaves' = {}
    /\ filesLoadedFromHistory' = TRUE
    /\ loads' = <<Activation("openDatabase", Undefined, Undefined, "")>>
    /\ fileReaders' = [k \in 1..Len(fileReaders) |->
                          [fileReaders[k] EXCEPT !.state = "closed"]]
    /\ last' = Op("constructor", Undefined, "reload")
    /\ UNCHANGED <<uploads, historyVars, artifactVars, archiveVars, saveAll, issued>>

(***************************************************************************)
(* Artifacts and actions                                                   *)
(***************************************************************************)
MessageIds == {"m1", "m2"}

ArtifactIds == {"a1", "a2"}

Titles == {"t1", "t2"}

ActionIds == {"act1"}

\* artifacts[messageId] is undefined
NoArtifact == [id |-> Undefined, title |-> Undefined, closed |-> FALSE, runner |-> 0]

\* new ActionRunner(webcontainer): a runner that was handed nothing
NewActionRunner == <<>>

\* Partial<ArtifactUpdateState>: the keys supplied and their values
ArtifactUpdates ==
    {st \in [keys : SUBSET {"title", "closed"}, title : Titles \cup {Undefined},
             closed : BOOLEAN] :
        /\ (st.title = Undefined) <=> ("title" \notin st.keys)
        /\ "closed" \notin st.keys => st.closed = FALSE}

\* arg is the call's data or partial state where a claim needs it
ArtifactOp(name, messageId, arg, result) ==
    [op |-> name, messageId |-> messageId, arg |-> arg, result |-> result]

\* #getArtifact(id)
GetArtifact(arts, messageId) == arts[messageId]

ArtifactExists(arts, messageId) == GetArtifact(arts, messageId) # NoArtifact

\* an addArtifact that overwrites
AddArtifactNeverReturns(arts, messageId) == FALSE

\* addArtifact, lines 305-309: the artifact exists, return
AddArtifactReturns(arts, messageId) == ArtifactExists(arts, messageId)

\* an updateArtifact that upserts
UpdateArtifactNeverReturns(arts, messageId) == FALSE

\* updateArtifact, lines 324-328: no artifact, return
UpdateArtifactReturns(arts, messageId) == ~ArtifactExists(arts, messageId)

\* { ...artifact, ...state }
MergeArtifact(artifact, state) ==
    [artifact EXCEPT !.title = IF "title" \in state.keys THEN state.title ELSE @,
                     !.closed = IF "closed" \in state.keys THEN state.closed ELSE @]

\* a list that takes the newest artifact first
ArtifactIdListNewestFirst(list, messageId) ==
    IF messageId \in Range(list) THEN list ELSE <<messageId>> \o list

\* addArtifact, lines 311-313: the list after the push
ArtifactIdListAfterAdd(list, messageId) ==
    IF messageId \in Range(list) THEN list ELSE Append(list, messageId)

\* get firstArtifact, lines 148-150: #getArtifact(artifactIdList[0])
FirstArtifact(arts, list) ==
    IF list = <<>> THEN NoArtifact ELSE GetArtifact(arts, list[1])

otherVarsOfArtifacts == <<storeVars, pendingSaves, filesLoadedFromHistory, loads,
                          uploads, historyVars,
    archiveVars, callVars, issued>>

\* addArtifact({ messageId, title, id })
AddArtifact(messageId, title, id) ==
    /\ IF AddArtifactReturns(artifacts, messageId)
       THEN UNCHANGED artifactVars
       ELSE /\ artifactIdList' = ArtifactIdListAfterAdd(artifactIdList, messageId)
            /\ runners' = Append(runners, NewActionRunner)
            /\ artifacts' = [artifacts EXCEPT ![messageId] =
                   [id |-> id, title |-> title, closed |-> FALSE,
                    runner |-> Len(runners) + 1]]
    /\ last' = ArtifactOp("addArtifact", messageId, [title |-> title, id |-> id],
                           IF artifacts[messageId] # NoArtifact THEN "duplicate" ELSE "first")
    /\ UNCHANGED otherVarsOfArtifacts

\* updateArtifact({ messageId }, state)
UpdateArtifact(messageId, state) ==
    /\ IF UpdateArtifactReturns(artifacts, messageId)
       THEN UNCHANGED artifacts
       ELSE artifacts' = [artifacts EXCEPT ![messageId] = MergeArtifact(@, state)]
    /\ last' = ArtifactOp("updateArtifact", messageId, state, "ok")
    /\ UNCHANGED <<artifactIdList, runners, otherVarsOfArtifacts>>

\* an addAction / runAction as forgiving as updateArtifact
ActionFailureSilent(arts, messageId) == "ok"

\* addAction / runAction, lines 336-340 and 348-352: what the call raises
ActionFailure(arts, messageId) ==
    IF ~ArtifactExists(arts, messageId) THEN "Artifact not found" ELSE "ok"

\* artifact.runner.addAction(data): the runner is handed the action to queue
RunnerAddAction(runner, actionId) == Append(runner, <<"add", actionId>>)

\* artifact.runner.runAction(data): the runner is handed the action to execute
RunnerRunAction(runner, actionId) == Append(runner, <<"run", actionId>>)

\* addAction(data)
AddAction(messageId, actionId) ==
    /\ IF ~ArtifactExists(artifacts, messageId)
       THEN UNCHANGED runners
       ELSE /\ Len(runners[GetArtifact(artifacts, messageId).runner]) < MaxQueue
            /\ runners' = [runners EXCEPT ![GetArtifact(artifacts, messageId).runner] =
                   RunnerAddAction(@, actionId)]
    /\ last' = ArtifactOp("addAction", messageId, [actionId |-> actionId], ActionFailure(artifacts, messageId))
    /\ UNCHANGED <<artifacts, artifactIdList, otherVarsOfArtifacts>>

\* runAction(data)
RunAction(messageId, actionId) ==
    /\ IF ~ArtifactExists(artifacts, messageId)
       THEN UNCHANGED runners
       ELSE /\ Len(runners[GetArtifact(artifacts, messageId).runner]) < MaxQueue
            /\ runners' = [runners EXCEPT ![GetArtifact(artifacts, messageId).runner] =
                   RunnerRunAction(@, actionId)]
    /\ last' = ArtifactOp("runAction", messageId, [actionId |-> actionId], ActionFailure(artifacts, messageId))
    /\ UNCHANGED <<artifacts, artifactIdList, otherVarsOfArtifacts>>

(***************************************************************************)
(* Chat records (db.ts): setMessages, deleteById, getNextId, getUrlId      *)
(***************************************************************************)
otherVarsOfDb == <<storeVars, pendingSaves, filesLoadedFromHistory, loads, uploads,
                   urlPath, fileHistory, artifactVars, archiveVars, callVars>>

Messages == {"m1", "m2"}

\* urlId?: string
UrlIds == {Undefined, "c", "c-2"}

\* description?: string
Descriptions == {Undefined, "d"}

\* new Date().toISOString(): the time of the call, one value for all calls
Timestamp == "<now>"

\* lines 68-74: the record setMessages puts
ChatRecord(id, messages, urlId, description, timestamp) ==
    [id |-> id, messages |-> messages, urlId |-> urlId,
     description |-> description, timestamp |-> timestamp]

\* the primary keys in ascending order, as a cursor or getAllKeys yields them
ChatKeyOrder == <<"1", "2", "x">>

\* store.getAllKeys()
GetAllKeys(db) == SelectSeq(ChatKeyOrder, LAMBDA k : db[k] # NoChat)

\* an index without the unique constraint
UrlIdFree(db, id, urlId) == FALSE

\* line 19: the unique index on urlId refuses a second record under a urlId
\* (a record without urlId is not in the index)
UrlIdTaken(db, id, urlId) ==
    /\ urlId # Undefined
    /\ \E k \in ChatKeys : k # id /\ db[k] # NoChat /\ db[k].urlId = urlId

\* a put that keeps the fields the call leaves out
PutMerged(db, id, record) ==
    [db EXCEPT ![id] =
        IF @ = NoChat
        THEN record
        ELSE [record EXCEPT !.urlId = IF record.urlId = Undefined THEN db[id].urlId ELSE @,
                            !.description = IF record.description = Undefined
                                            THEN db[id].description ELSE @]]

\* line 68: store.put(record), keyPath 'id'
Put(db, id, record) == [db EXCEPT ![id] = record]

\* the record of a setMessages call: its arguments, its outcome and the record
\* it found under id
PutOp(id, messages, urlId, description, result, replaced) ==
    [op |-> "setMessages",
     arg |-> [id |-> id, messages |-> messages, urlId |-> urlId,
              description |-> description],
     result |-> result, replaced |-> replaced]

\* setMessages(db, id, messages, urlId?, description?)
SetMessages(id, messages, urlId, description) ==
    /\ chats[id] # NoChat \/ Len(GetAllKeys(chats)) < MaxChats
    /\ IF UrlIdTaken(chats, id, urlId)
       THEN /\ UNCHANGED chats
            /\ last' = PutOp(id, messages, urlId, description, "rejected", chats[id])
       ELSE /\ chats' = Put(chats, id, ChatRecord(id, messages, urlId,
                                                  description, Timestamp))
            /\ last' = PutOp(id, messages, urlId, description, "resolved", chats[id])
    /\ issued' = <<>>
    /\ UNCHANGED otherVarsOfDb

\* a delete that clears the store
DeleteAll(db, id) == [k \in ChatKeys |-> NoChat]

\* line 124: store.delete(id)
Delete(db, id) == [db EXCEPT ![id] = NoChat]

\* deleteById(db, id)
DeleteById(id) ==
    /\ chats' = Delete(chats, id)
    /\ last' = Op("deleteById", id, "resolved")
    /\ issued' = <<>>
    /\ UNCHANGED otherVarsOfDb

\* a JavaScript number: an integer or NaN
Num(n) == [nan |-> FALSE, n |-> n]

NaN == [nan |-> TRUE, n |-> 0]

\* the integers a key may spell
KeyNumbers == 0..9

\* line 138: +acc, the unary plus on a key
ToNumber(key) ==
    IF key = ""
    THEN Num(0)
    ELSE IF \E n \in KeyNumbers : ToString(n) = key
         THEN Num(CHOOSE n \in KeyNumbers : ToString(n) = key)
         ELSE NaN

\* Math.max(a, b): NaN when either is NaN
MathMax(a, b) ==
    IF a.nan \/ b.nan THEN NaN ELSE IF a.n >= b.n THEN a ELSE b

\* a scan that returns the first key it meets
HighestIdFirstKey(keys, cur) == IF keys = <<>> THEN cur ELSE ToNumber(Head(keys))

\* line 138: request.result.reduce((cur, acc) => Math.max(+cur, +acc), 0)
RECURSIVE HighestId(_, _)
HighestId(keys, cur) ==
    IF keys = <<>>
    THEN cur
    ELSE HighestId(Tail(keys), MathMax(cur, ToNumber(Head(keys))))

\* line 139: String(+highestId + 1)
StringOfNext(highestId) == IF highestId.nan THEN "NaN" ELSE ToString(highestId.n + 1)

\* getNextId(db)
GetNextId ==
    /\ last' = Op("getNextId", Undefined, StringOfNext(HighestId(GetAllKeys(chats), Num(0))))
    /\ UNCHANGED <<chats, issued, otherVarsOfDb>>

\* line 217: if (cursor.value.urlId)
Truthy(urlId) == urlId # Undefined /\ urlId # ""

\* getUrlIds(db): the urlIds the cursor collects
GetUrlIds(db) ==
    LET keys == SelectSeq(GetAllKeys(db), LAMBDA k : Truthy(db[k].urlId))
    IN  [n \in 1..Len(keys) |-> db[keys[n]].urlId]

\* idList.includes(id)
Includes(idList, id) == \E n \in 1..Len(idList) : idList[n] = id

\* `${id}-${i}`
Slug(id, i) == id \o "-" \o ToString(i)

\* a probe that stops at -2
ProbeOnce(idList, id, i) == Slug(id, i)

\* lines 195-201: the probe from i
RECURSIVE Probe(_, _, _)
Probe(idList, id, i) ==
    IF Includes(idList, Slug(id, i)) THEN Probe(idList, id, i + 1) ELSE Slug(id, i)

\* lines 190-202
UrlIdFor(idList, id) == IF ~Includes(idList, id) THEN id ELSE Probe(idList, id, 2)

\* the candidates getUrlId is called with
Candidates == {"c", "c-2"}

\* getUrlId(db, id)
GetUrlId(id) ==
    /\ Len(issued) < MaxUrlIdCalls
    /\ LET slug == UrlIdFor(GetUrlIds(chats), id)
       IN  /\ issued' = Append(issued, [candidate |-> id, slug |-> slug])
           /\ last' = Op("getUrlId", id, slug)
    /\ UNCHANGED <<chats, otherVarsOfDb>>

(***************************************************************************)
(* Lookups and the file history (db.ts): getMessages, getFilesByChatId,    *)
(* saveFileInHistory                                                       *)
(***************************************************************************)
otherVarsOfFileHistory == <<storeVars, pendingSaves, filesLoadedFromHistory, loads,
                            uploads, urlPath, chats, artifactVars, archiveVars, callVars, issued>>

\* a lookup that prefers the urlId match
MessagesForUrlIdFirst(db, id) ==
    LET byUrlId == GetMessagesByUrlId(db, id)
    IN  IF id = ""
        THEN Rejected
        ELSE IF byUrlId.value # NoChat THEN byUrlId ELSE GetMessagesById(db, id)

\* line 82: (await getMessagesById(db, id)) || (await getMessagesByUrlId(db, id))
MessagesFor(db, id) ==
    LET byId == GetMessagesById(db, id)
    IN  IF byId.status = "rejected"
        THEN Rejected
        ELSE IF byId.value # NoChat THEN byId ELSE GetMessagesByUrlId(db, id)

\* the ids getMessages is called with: the empty string, the keys 1 and 2,
\* and a slug
LookupIds == {"", "1", "2", "c"}

\* the record of a getMessages call: its argument and what it settled with
LookupOp(id, outcome) ==
    [op |-> "getMessages", arg |-> Undefined, id |-> id,
     result |-> outcome.status, value |-> outcome.value]

\* getMessages(db, id)
GetMessages(id) ==
    /\ last' = LookupOp(id, MessagesFor(chats, id))
    /\ UNCHANGED <<fileHistory, otherVarsOfFileHistory>>

\* the record of a getFilesByChatId call: its argument and the records it
\* resolved with
FilesOp(chatId, records) ==
    [op |-> "getFilesByChatId", arg |-> Undefined, chatId |-> chatId,
     result |-> "resolved", records |-> records, count |-> Len(records)]

\* getFilesByChatId(db, chatId)
ReadFilesByChatId(chatId) ==
    /\ last' = FilesOp(chatId, GetFilesByChatId(fileHistory, chatId))
    /\ UNCHANGED <<fileHistory, otherVarsOfFileHistory>>

\* the record of a saveFileInHistory call: its arguments and the fileId the
\* store gave the record
SnapshotOp(chatId, filePath, fileContent, fileId) ==
    [op |-> "saveFileInHistory", arg |-> Undefined, chatId |-> chatId,
     filePath |-> filePath, fileContent |-> fileContent, fileId |-> fileId,
     result |-> "resolved"]

\* saveFileInHistory(db, chatId, filePath, fileContent)
WriteFileInHistory(chatId, filePath, fileContent) ==
    /\ Len(fileHistory) < MaxSnapshots
    /\ fileHistory' = SaveFileInHistory(fileHistory, chatId, filePath, fileContent)
    /\ last' = SnapshotOp(chatId, filePath, fileContent, Len(fileHistory'))
    /\ UNCHANGED otherVarsOfFileHistory

(***************************************************************************)
(* Archives: handleProjectUpload, downloadZip                              *)
(***************************************************************************)
otherVarsOfArchive == <<editBuffer, unsavedFiles, pendingSaves, filesLoadedFromHistory,
                        loads, uploads, historyVars, artifactVars, callVars, issued>>

\* an archive entry as the codec hands it over: its path inside the archive,
\* whether it is a directory, and its decoded text
Entry(relativePath, dir, content) ==
    [relativePath |-> relativePath, dir |-> dir, content |-> content]

\* src/, src/a.ts = "x", b.ts = "y"
ArchiveNested == <<Entry(<<"src">>, TRUE, ""), Entry(<<"src", "a.ts">>, FALSE, "x"),
                   Entry(<<"b.ts">>, FALSE, "y")>>

\* a.ts = "y", b.ts = "x"
ArchiveFlat == <<Entry(<<"a.ts">>, FALSE, "y"), Entry(<<"b.ts">>, FALSE, "x")>>

Archives == {ArchiveNested, ArchiveFlat}

\* file.name.endsWith('.zip'), file.name.endsWith('.rar'), neither
Extensions == {"zip", "rar", "txt"}

\* the entries the forEach callback handles: if (!file.dir)
FileEntries(entries) == {j \in 1..Len(entries) : ~entries[j].dir}

\* a handleProjectUpload activation: where it is suspended, the state of the
\* promise it returned, the entries whose decode is pending, and, for the
\* record, the entries written so far in the order written and the entries
\* whose decode failed
ProjectUpload(ext, entries, pc, promise, decoding) ==
    [ext |-> ext, entries |-> entries, pc |-> pc, promise |-> promise,
     decoding |-> decoding, written |-> <<>>, failed |-> {}]

\* lines 447-453, to the first await of the extractor chosen
HandleProjectUpload(ext, entries) ==
    /\ Len(projectUploads) < MaxProjectUploads
    /\ projectUploads' = Append(projectUploads,
           IF ext = "zip"
           THEN ProjectUpload(ext, entries, "loadAsync", "pending", {})
           ELSE IF ext = "rar"
                THEN ProjectUpload(ext, entries, "arrayBuffer", "pending", {})
                ELSE ProjectUpload(ext, entries, "done", "resolved", {}))
    /\ last' = ArchiveOp("handleProjectUpload", Len(projectUploads) + 1, "ok")
    /\ UNCHANGED <<storeVars, download, otherVarsOfArchive>>

\* lines 458-474: zip.forEach(async ...) starts the callbacks and returns, and
\* so do #extractZipFile and handleProjectUpload
PromiseAfterForEach(decoding) == "resolved"

\* lines 456-474: JSZip.loadAsync has settled; loaded, every callback runs to
\* its `await file.async('string')`
ZipLoadAsync(i, loaded) ==
    /\ i \in 1..Len(projectUploads) /\ projectUploads[i].pc = "loadAsync"
    /\ projectUploads' = [projectUploads EXCEPT ![i] =
           IF loaded
           THEN LET decoding == FileEntries(@.entries)
                IN  [@ EXCEPT !.pc = IF decoding = {} THEN "done" ELSE "decoding",
                              !.promise = PromiseAfterForEach(decoding),
                              !.decoding = decoding]
           ELSE [@ EXCEPT !.pc = "done", !.promise = "rejected"]]
    /\ last' = ArchiveOp("zip.loadAsync", i, IF loaded THEN "ok" ELSE "failed")
    /\ UNCHANGED <<storeVars, download, otherVarsOfArchive>>

\* the state of handleProjectUpload's promise once a callback's decode failed
PromiseAfterDecodeFailure(promise) == promise

\* lines 460-472: file.async('string') of entry j has settled; decoded, the
\* callback writes the entry and selects it
ZipFileAsync(i, j, decoded) ==
    /\ i \in 1..Len(projectUploads) /\ projectUploads[i].pc = "decoding"
    /\ j \in projectUploads[i].decoding
    /\ LET u == projectUploads[i]
           filePath == ArchivePath(u.entries[j].relativePath)
           rest == u.decoding \ {j}
           pc == IF rest = {} THEN "done" ELSE "decoding"
       IN  IF decoded
           THEN /\ files' = SetKey(files, filePath, FileDirent(u.entries[j].content))
                /\ fileOrder' = OrderAfterSetKey(fileOrder, filePath)
                /\ selectedFile' = SetDocuments(files', fileOrder', filePath)
                /\ projectUploads' = [projectUploads EXCEPT ![i] =
                       [@ EXCEPT !.pc = pc, !.decoding = rest,
                                 !.written = Append(@, j)]]
           ELSE /\ projectUploads' = [projectUploads EXCEPT ![i] =
                       [@ EXCEPT !.pc = pc, !.decoding = rest,
                                 !.promise = PromiseAfterDecodeFailure(@),
                                 !.failed = @ \cup {j}]]
                /\ UNCHANGED <<files, fileOrder, selectedFile>>
    /\ last' = ArchiveOp("zip.file.async", i, IF decoded THEN "ok" ELSE "failed")
    /\ UNCHANGED <<editBuffer, unsavedFiles, download, otherVarsOfArchive>>

\* the entries before position failAt that the loop writes, in the loop's order
WrittenBefore(entries, failAt) ==
    SelectSeq([k \in 1..(failAt - 1) |-> k], LAMBDA k : ~entries[k].dir)

\* lines 499-515: the FileMap after the loop has written the entries ws
RECURSIVE FilesAfterEntries(_, _, _)
FilesAfterEntries(fm, entries, ws) ==
    IF ws = <<>>
    THEN fm
    ELSE FilesAfterEntries(
             SetKey(fm, ArchivePath(entries[Head(ws)].relativePath),
                    FileDirent(entries[Head(ws)].content)),
             entries, Tail(ws))

RECURSIVE OrderAfterEntries(_, _, _)
OrderAfterEntries(order, entries, ws) ==
    IF ws = <<>>
    THEN order
    ELSE OrderAfterEntries(
             OrderAfterSetKey(order, ArchivePath(entries[Head(ws)].relativePath)),
             entries, Tail(ws))

\* line 491: file.arrayBuffer() has settled
RarArrayBuffer(i) ==
    /\ i \in 1..Len(projectUploads) /\ projectUploads[i].pc = "arrayBuffer"
    /\ projectUploads' = [projectUploads EXCEPT ![i].pc = "loadWasmBinary"]
    /\ last' = ArchiveOp("rar.arrayBuffer", i, "ok")
    /\ UNCHANGED <<storeVars, download, otherVarsOfArchive>>

\* lines 478-487, 492: #loadWasmBinary has settled
RarLoadWasmBinary(i, loaded) ==
    /\ i \in 1..Len(projectUploads) /\ projectUploads[i].pc = "loadWasmBinary"
    /\ projectUploads' = [projectUploads EXCEPT ![i] =
           IF loaded
           THEN [@ EXCEPT !.pc = "createExtractor"]
           ELSE [@ EXCEPT !.pc = "done", !.promise = "rejected"]]
    /\ last' = ArchiveOp("rar.loadWasmBinary", i, IF loaded THEN "ok" ELSE "failed")
    /\ UNCHANGED <<storeVars, download, otherVarsOfArchive>>

\* the positions the extraction loop may fail at: a file entry whose
\* extraction cannot be decoded, or none (one past the last entry)
FailurePoints(entries) == FileEntries(entries) \cup {Len(entries) + 1}

\* lines 495-515: createExtractorFromData has settled; created, the loop runs
\* synchronously up to the entry it fails at
RarExtract(i, created, failAt) ==
    /\ i \in 1..Len(projectUploads) /\ projectUploads[i].pc = "createExtractor"
    /\ failAt \in FailurePoints(projectUploads[i].entries)
    /\ LET u == projectUploads[i]
           ws == WrittenBefore(u.entries, failAt)
       IN  IF created
           THEN /\ files' = FilesAfterEntries(files, u.entries, ws)
                /\ fileOrder' = OrderAfterEntries(fileOrder, u.entries, ws)
                /\ selectedFile' =
                       IF ws = <<>>
                       THEN selectedFile
                       ELSE SetDocuments(files', fileOrder',
                                ArchivePath(u.entries[ws[Len(ws)]].relativePath))
                /\ projectUploads' = [projectUploads EXCEPT ![i] =
                       [@ EXCEPT !.pc = "done",
                                 !.promise = IF failAt > Len(u.entries)
                                             THEN "resolved" ELSE "rejected",
                                 !.written = ws,
                                 !.failed = IF failAt > Len(u.entries)
                                            THEN {} ELSE {failAt}]]
                /\ last' = ArchiveOp("rar.extract", i,
                              IF failAt > Len(u.entries) THEN "ok" ELSE "failed")
           ELSE /\ projectUploads' = [projectUploads EXCEPT ![i] =
                       [@ EXCEPT !.pc = "done", !.promise = "rejected"]]
                /\ last' = ArchiveOp("rar.extract", i, "failed")
                /\ UNCHANGED <<files, fileOrder, selectedFile>>
    /\ UNCHANGED <<editBuffer, unsavedFiles, download, otherVarsOfArchive>>

\* a download that packs every file
ZipIncludesBinary(dirent) == dirent.type = "file"

\* line 367: dirent?.type === 'file' && !dirent.isBinary
ZipIncludes(dirent) == dirent.type = "file" /\ ~dirent.isBinary

\* line 369: filePath.replace(/^\/home\/project\//, ''), split at '/'
RelativePath(filePath) ==
    IF Len(filePath) > 2 /\ SubSeq(filePath, 1, 2) = ProjectRoot
    THEN SubSeq(filePath, 3, Len(filePath))
    ELSE <<"">> \o filePath

\* lines 372-384: the folders created on the way and the file put in the last
ZipEntriesOf(filePath, dirent) ==
    LET pathSegments == RelativePath(filePath)
    IN  {Entry(SubSeq(pathSegments, 1, k), TRUE, "") : k \in 1..(Len(pathSegments) - 1)}
            \cup {Entry(pathSegments, FALSE, dirent.content)}

\* lines 366-386: the archive after the loop over Object.entries(files)
RECURSIVE BuildZip(_, _)
BuildZip(fm, order) ==
    IF order = <<>>
    THEN {}
    ELSE (IF ZipIncludes(fm[Head(order)])
          THEN ZipEntriesOf(Head(order), fm[Head(order)])
          ELSE {}) \cup BuildZip(fm, Tail(order))

\* downloadZip was not called
NoDownload == [pc |-> "idle", zip |-> {}]

\* lines 362-388: downloadZip, to `await zip.generateAsync`
DownloadZip ==
    /\ download.pc # "generateAsync"
    /\ download' = [pc |-> "generateAsync", zip |-> BuildZip(files, fileOrder)]
    /\ last' = Op("downloadZip", Undefined, "ok")
    /\ UNCHANGED <<storeVars, projectUploads, otherVarsOfArchive>>

\* lines 388-389: generateAsync has settled; saveAs(content, 'project.zip')
DownloadZipSaveAs ==
    /\ download.pc = "generateAsync"
    /\ download' = [download EXCEPT !.pc = "saved"]
    /\ last' = Op("downloadZip.saveAs", Undefined, "ok")
    /\ UNCHANGED <<storeVars, projectUploads, otherVarsOfArchive>>

(***************************************************************************)
(* The initial state: a WorkbenchStore just constructed                    *)
(***************************************************************************)
\* url.pathname.split('/') of the pages the workbench is opened at:
\* "/", "/chat/1", "/chat/2", "/chat/x"
UrlPaths == {<<"", "">>, <<"", "chat", "1">>, <<"", "chat", "2">>, <<"", "chat", "x">>}

EmptyChats == [k \in ChatKeys |-> NoChat]

\* chat 1 is reached under the slug x, chat 2 under the slug 1
SeedChats == [k \in ChatKeys |->
    IF k = "1" THEN Chat("1", "x") ELSE IF k = "2" THEN Chat("2", "1") ELSE NoChat]

Snapshot(chatId, name, content) ==
    [chatId |-> chatId, filePath |-> FilePath(name), fileContent |-> content]

\* two snapshots of a.ts under chat 1, and one left under the key x by a chat
\* since deleted (deleteById does not cascade)
SeedHistory == <<Snapshot("1", "a.ts", "x"), Snapshot("x", "b.ts", "y"),
                 Snapshot("1", "a.ts", "y")>>

\* everything but the FileMap and the selection
InitOthers ==
    /\ editBuffer = [p \in Paths |-> NoEdit]
    /\ unsavedFiles = <<>>
    /\ pendingSaves = {}
    /\ uploads = EmptyBag
    /\ artifacts = [m \in MessageIds |-> NoArtifact]
    /\ artifactIdList = <<>>
    /\ runners = <<>>
    /\ projectUploads = <<>>
    /\ download = NoDownload
    /\ issued = <<>>
    /\ saveAll = NoSaveAll
    /\ fileReaders = <<>>
    \* the constructor calls init(), which runs up to `await openDatabase()`
    /\ filesLoadedFromHistory = TRUE
    /\ loads = <<Activation("openDatabase", Undefined, Undefined, "")>>
    /\ last = Op("constructor", Undefined, "ok")

InitStore ==
    /\ files = [p \in Paths |-> NoDirent]
    /\ fileOrder = <<>>
    /\ selectedFile = NoPath
    /\ InitOthers

Init ==
    /\ InitStore
    /\ urlPath \in UrlPaths
    /\ \/ chats = EmptyChats /\ fileHistory = <<>>
       \/ chats = SeedChats /\ fileHistory = SeedHistory

(***************************************************************************)
(* Specifications                                                          *)
(***************************************************************************)
EditorNext ==
    \/ \E p \in UploadPaths \cup {NoPath} : SetSelectedFile(p)
    \/ \E c \in Contents : SetCurrentDocumentContent(c)
    \/ ResetCurrentDocument
    \/ \E p \in UploadPaths : SaveFile(p)
    \/ SaveCurrentDocument
    \/ \E s \in pendingSaves : SaveFileResume(s)
    \/ \E s \in pendingSaves : SaveFileReject(s)

UploadNext ==
    \/ \E n \in FileNames, c \in Contents : HandleFileUpload(n, c)
    \/ \E u \in BagToSet(uploads), opened \in BOOLEAN : UploadOpenDatabase(u, opened)
    \/ \E u \in BagToSet(uploads) : UploadGetMessagesById(u)
    \/ \E u \in BagToSet(uploads) : UploadGetMessagesByUrlId(u)
    \/ \E u \in BagToSet(uploads) : UploadSaveFileInHistory(u)

LoadNext ==
    \/ LoadFilesFromHistory
    \/ \E i \in 1..Len(loads), opened \in BOOLEAN : LoadOpenDatabase(i, opened)
    \/ \E i \in 1..Len(loads) : LoadGetMessagesById(i)
    \/ \E i \in 1..Len(loads) : LoadGetMessagesByUrlId(i)
    \/ \E i \in 1..Len(loads) : LoadGetFilesByChatId(i)

ArtifactNext ==
    \/ \E m \in MessageIds, t \in Titles, a \in ArtifactIds : AddArtifact(m, t, a)
    \/ \E m \in MessageIds, st \in ArtifactUpdates : UpdateArtifact(m, st)
    \/ \E m \in MessageIds, a \in ActionIds : AddAction(m, a)
    \/ \E m \in MessageIds, a \in ActionIds : RunAction(m, a)

\* the workbench opened at the root page: no chat id in the URL and an empty
\* history store
InitRoot ==
    /\ InitStore
    /\ urlPath = <<"", "">>
    /\ chats = EmptyChats /\ fileHistory = <<>>

RootNext ==
    \/ EditorNext
    \/ \E n \in FileNames, c \in Contents : HandleFileUpload(n, c)
    \/ \E u \in BagToSet(uploads), opened \in BOOLEAN : UploadOpenDatabase(u, opened)

\* a workbench whose unsaved files are saved together: uploads create the
\* files, edits mark them unsaved, saveAllFiles runs with edits in between
SaveAllNext ==
    \/ \E p \in UploadPaths \cup {NoPath} : SetSelectedFile(p)
    \/ \E c \in Contents : SetCurrentDocumentContent(c)
    \/ \E n \in FileNames, c \in Contents : HandleFileUpload(n, c)
    \/ \E u \in BagToSet(uploads), opened \in BOOLEAN : UploadOpenDatabase(u, opened)
    \/ SaveAllFiles
    \/ SaveAllFilesResume
    \/ SaveAllFilesReject

SpecSaveAll == InitRoot /\ [][SaveAllNext]_vars

\* the workbench opened at a URL of the seeded chats, with no snapshot saved yet
InitChat ==
    /\ InitStore
    /\ urlPath \in UrlPaths
    /\ chats = SeedChats /\ fileHistory = <<>>

ReloadNext ==
    \/ \E n \in FileNames, c \in Contents : ReadAsText(n, c)
    \/ \E k \in 1..Len(fileReaders) : ReaderOnload(k)
    \/ \E u \in BagToSet(uploads), opened \in BOOLEAN : UploadOpenDatabase(u, opened)
    \/ \E u \in BagToSet(uploads) : UploadGetMessagesById(u)
    \/ \E u \in BagToSet(uploads) : UploadGetMessagesByUrlId(u)
    \/ \E u \in BagToSet(uploads) : UploadSaveFileInHistory(u)
    \/ LoadNext
    \/ Reload

\* uploads read by their FileReaders, then the page loaded again at the same
\* URL and bootstrapped from the history the uploads left
SpecReload == InitChat /\ [][ReloadNext]_vars

\* editing, saving and uploads on the root page
Spec == InitRoot /\ [][RootNext]_vars

HistoryNext == UploadNext \/ LoadNext

\* the bootstrap load and uploads against the history store, on every page
SpecHistory == Init /\ [][HistoryNext]_vars

\* the artifact side of the store
SpecArtifacts == InitRoot /\ [][ArtifactNext]_vars

\* a project the container's file watcher has put into the FileMap: the folder
\* src, src/a.ts = "x", a binary a.ts, and b.ts = "y"
SeedFiles ==
    [p \in Paths |->
        IF p = ArchivePath(<<"src">>) THEN FolderDirent
        ELSE IF p = ArchivePath(<<"src", "a.ts">>) THEN FileDirent("x")
        ELSE IF p = FilePath("a.ts") THEN BinaryDirent
        ELSE IF p = FilePath("b.ts") THEN FileDirent("y")
        ELSE NoDirent]

SeedOrder == <<ArchivePath(<<"src">>), ArchivePath(<<"src", "a.ts">>),
               FilePath("a.ts"), FilePath("b.ts")>>

\* the workbench at the root page, over an empty FileMap or over the project
InitArchive ==
    /\ \/ files = [p \in Paths |-> NoDirent] /\ fileOrder = <<>>
       \/ files = SeedFiles /\ fileOrder = SeedOrder
    /\ selectedFile = SetDocuments(files, fileOrder, NoPath)
    /\ InitOthers
    /\ urlPath = <<"", "">>
    /\ chats = EmptyChats /\ fileHistory = <<>>

ArchiveNext ==
    \/ \E ext \in Extensions, entries \in Archives : HandleProjectUpload(ext, entries)
    \/ \E i \in 1..Len(projectUploads), loaded \in BOOLEAN : ZipLoadAsync(i, loaded)
    \/ \E i \in 1..Len(projectUploads) :
           \E j \in projectUploads[i].decoding, decoded \in BOOLEAN :
               ZipFileAsync(i, j, decoded)
    \/ \E i \in 1..Len(projectUploads) : RarArrayBuffer(i)
    \/ \E i \in 1..Len(projectUploads), loaded \in BOOLEAN : RarLoadWasmBinary(i, loaded)
    \/ \E i \in 1..Len(projectUploads) :
           \E created \in BOOLEAN, failAt \in FailurePoints(projectUploads[i].entries) :
               RarExtract(i, created, failAt)
    \/ DownloadZip
    \/ DownloadZipSaveAs

\* archive uploads and the download
SpecArchive == InitArchive /\ [][ArchiveNext]_vars

DbNext ==
    \/ \E id \in ChatKeys, m \in Messages, u \in UrlIds, d \in Descriptions :
           SetMessages(id, m, u, d)
    \/ \E id \in ChatKeys : DeleteById(id)
    \/ GetNextId
    \/ \E id \in Candidates : GetUrlId(id)

\* the chats collection under its writers and readers
SpecDb == InitRoot /\ [][DbNext]_vars

\* the chats 1 and 2, with no urlId, the urlId 1 or the urlId c, and the
\* snapshots of a.ts saved for them
DbFilesNext ==
    \/ \E id \in {"1", "2"}, u \in {Undefined, "1", "c"} :
           SetMessages(id, "m1", u, Undefined)
    \/ \E id \in {"1", "2"} : DeleteById(id)
    \/ GetNextId
    \/ \E id \in LookupIds : GetMessages(id)
    \/ \E id \in {"1", "2"}, c \in Contents :
           WriteFileInHistory(id, FilePath("a.ts"), c)
    \/ \E id \in {"1", "2"} : ReadFilesByChatId(id)

\* the two collections of the history store under the functions of db.ts
SpecDbFiles == InitRoot /\ [][DbFilesNext]_vars

(***************************************************************************)
(* Claims: the unsaved set                                                 *)
(***************************************************************************)
Unsaved(p) == p \in Range(unsavedFiles)

\* the edit-buffer content of p and the FileMap's stored content of p differ
BufferDiffers(fm, buf, p) == HasDocument(fm, p) /\ DocumentValue(fm, buf, p) # fm[p].content

\* C1: in every reachable state a path is in unsavedFiles if and only if its
\* edit-buffer content differs from the FileMap's stored content.
C1_UnsavedIffBufferDiffers ==
    \A p \in Paths : Unsaved(p) <=> BufferDiffers(files, editBuffer, p)

\* C2: when saveFile(p) is called for a path whose buffer an edit set to X, it
\* takes X to write; when it then completes with nothing run in between, the
\* FileMap content of p is X and p is not in unsavedFiles.
C2_SaveCommitsBuffer ==
    /\ [][(last'.op = "saveFile" /\ HasDocument(files, last'.path)
             /\ editBuffer[last'.path] # NoEdit)
          => [path |-> last'.path, value |-> editBuffer[last'.path]] \in pendingSaves']_vars
    /\ [][(last.op = "saveFile" /\ last'.op = "saveFile.resume")
          => \A s \in pendingSaves \ pendingSaves' :
                (s.path = last.path /\ s.value = editBuffer[s.path])
                => /\ GetFile(files', s.path) = FileDirent(editBuffer[s.path])
                   /\ ~Unsaved(s.path)']_vars

\* C2 witness: a save of an edited, unsaved path completed right after it was
\* called; the FileMap holds the buffer's content and the flag is cleared.
C2_Witness ==
    /\ last.op = "saveFile.resume" /\ last.result = "uninterrupted"
    /\ \E p \in Paths :
          /\ editBuffer[p] # NoEdit
          /\ GetFile(files, p) = FileDirent(editBuffer[p])
          /\ ~Unsaved(p)

\* C3: an edit that sets the current path's buffer to exactly the FileMap's
\* content of that path leaves the path out of unsavedFiles, whether or not it
\* was in it before.
C3_EditToOriginalIsClean ==
    [][LET p == CurrentDocument(files, selectedFile)
       IN  (/\ last'.op = "setCurrentDocumentContent"
            /\ p # NoPath
            /\ GetFile(files, p).type = "file"
            /\ last'.arg = GetFile(files, p).content)
           => /\ ~Unsaved(p)'
              /\ editBuffer'[p] = GetFile(files, p).content]_vars

\* C3 witness: the edit reproduced the original content of a path that was in
\* unsavedFiles, and the path is out of it.
C3_Witness ==
    /\ last.op = "setCurrentDocumentContent" /\ last.result = "wasUnsaved"
    /\ HasDocument(files, selectedFile)
    /\ last.arg = files[selectedFile].content
    /\ ~Unsaved(selectedFile)

\* C4: with p selected and present in the FileMap with content C,
\* resetCurrentDocument leaves p's buffer content equal to C, the FileMap
\* content of p still C and p out of unsavedFiles; with no current document
\* or no such file it changes nothing.
C4_ResetRestoresOriginal ==
    [][last'.op = "resetCurrentDocument"
       => IF selectedFile \in Paths /\ GetFile(files, selectedFile).type = "file"
          THEN /\ DocumentValue(files', editBuffer', selectedFile)
                      = files[selectedFile].content
               /\ files' = files
               /\ selectedFile' = selectedFile
               /\ ~Unsaved(selectedFile)'
          ELSE UNCHANGED storeVars]_vars

\* C4 witness: a reset of an edited, unsaved document has restored the file's
\* content.
C4_Witness ==
    /\ last.op = "resetCurrentDocument" /\ last.result = "wasUnsaved"
    /\ HasDocument(files, selectedFile)
    /\ editBuffer[selectedFile] = files[selectedFile].content
    /\ ~Unsaved(selectedFile)

(***************************************************************************)
(* Claims: artifacts and actions                                           *)
(***************************************************************************)
Occurrences(seq, e) == Cardinality({i \in 1..Len(seq) : seq[i] = e})

\* C5: addArtifact with a messageId that already has an artifact changes
\* nothing: the artifact keeps its id, title, closed flag and runner, and the
\* messageId stays listed exactly once.
C5_AddArtifactFirstWriteWins ==
    [][(last'.op = "addArtifact" /\ artifacts[last'.messageId] # NoArtifact)
       => /\ artifacts' = artifacts
          /\ artifactIdList' = artifactIdList
          /\ runners' = runners
          /\ Occurrences(artifactIdList', last'.messageId) = 1]_vars

\* C5 witness: a second addArtifact with another title and another id has run
\* and the artifact shows neither.
C5_Witness ==
    /\ last.op = "addArtifact" /\ last.result = "duplicate"
    /\ artifacts[last.messageId].title # last.arg.title
    /\ artifacts[last.messageId].id # last.arg.id
    /\ artifacts[last.messageId].closed

\* C6: addAction and runAction for a messageId without an artifact raise
\* 'Artifact not found' and hand nothing to any runner, and the runner a
\* later addArtifact creates starts empty.
C6_ActionWithoutArtifactIsFatal ==
    /\ [][(last'.op \in {"addAction", "runAction"}
             /\ artifacts[last'.messageId] = NoArtifact)
          => /\ last'.result = "Artifact not found"
             /\ UNCHANGED artifactVars]_vars
    /\ [][\A m \in MessageIds :
             (artifacts[m] = NoArtifact /\ artifacts'[m] # NoArtifact)
             => /\ artifacts'[m].runner \in 1..Len(runners')
                /\ artifacts'[m].runner \notin 1..Len(runners)
                /\ runners'[artifacts'[m].runner] = <<>>]_vars

\* C6 witness: an addAction has just failed on a messageId without artifact
\* while another artifact's runner holds an action.
C6_Witness ==
    /\ last.op = "addAction" /\ last.result = "Artifact not found"
    /\ artifacts[last.messageId] = NoArtifact
    /\ \E i \in 1..Len(runners) : runners[i] # <<>>

\* C7: updateArtifact for a messageId without an artifact raises nothing and
\* changes nothing, where addAction raises; for an existing artifact it sets
\* the supplied title and closed fields only.
C7_UpdateArtifactSilentMiss ==
    /\ [][last'.op = "updateArtifact"
          => LET m == last'.messageId
                 st == last'.arg
             IN  /\ last'.result = "ok"
                 /\ artifactIdList' = artifactIdList
                 /\ runners' = runners
                 /\ \A o \in MessageIds \ {m} : artifacts'[o] = artifacts[o]
                 /\ IF artifacts[m] = NoArtifact
                    THEN artifacts'[m] = NoArtifact
                    ELSE /\ artifacts'[m].id = artifacts[m].id
                         /\ artifacts'[m].runner = artifacts[m].runner
                         /\ artifacts'[m].title =
                              IF "title" \in st.keys THEN st.title ELSE artifacts[m].title
                         /\ artifacts'[m].closed =
                              IF "closed" \in st.keys THEN st.closed ELSE artifacts[m].closed]_vars
    /\ [][(last'.op = "addAction" /\ artifacts[last'.messageId] = NoArtifact)
          => last'.result # "ok"]_vars

\* C7 witness: an updateArtifact that supplies a title and closed has missed.
C7_Witness ==
    /\ last.op = "updateArtifact" /\ last.result = "ok"
    /\ last.arg.keys = {"title", "closed"}
    /\ artifacts[last.messageId] = NoArtifact
    /\ \E o \in MessageIds : artifacts[o] # NoArtifact

(***************************************************************************)
(* Claims: the bootstrap load                                              *)
(***************************************************************************)
\* the activations that went past the guard of line 75
BodyRuns == {i \in 1..Len(loads) : loads[i].pc # "returned"}

\* C8: whatever init()/loadFilesFromHistory() calls are made, and whenever,
\* the body of the history load runs at most once.
C8_LoadRunsAtMostOnce == Cardinality(BodyRuns) <= 1

\* C8 witness: a call made while the constructor's load was suspended on the
\* store has returned at the guard.
C8_Witness ==
    /\ Len(loads) >= 2
    /\ loads[1].pc = "getFilesByChatId"
    /\ loads[2].pc = "returned"

\* the chat records the URL's last segment matches by id or by urlId
ChatsMatching(seg) ==
    {k \in ChatKeys : chats[k] # NoChat /\ (chats[k].id = seg \/ chats[k].urlId = seg)}

SnapshotsOf(chatId) == {i \in 1..Len(fileHistory) : fileHistory[i].chatId = chatId}

\* C9: a load never throws, and when the store is unavailable, the URL's last
\* segment is empty or matches no chat, or the resolved chat has no
\* snapshots, it ends leaving the FileMap and the selection as they were.
C9_LoadDegradesQuietly ==
    [][\A i \in 1..Len(loads) :
          (loads[i].pc # "done" /\ loads'[i].pc = "done")
          => /\ loads'[i].outcome # "threw"
             /\ (\/ loads'[i].outcome = "unavailable"
                 \/ LastSegment(urlPath) = ""
                 \/ ChatsMatching(LastSegment(urlPath)) = {}
                 \/ (loads[i].pc = "getFilesByChatId"
                       /\ SnapshotsOf(loads[i].entryId) = {}))
                => /\ loads'[i].outcome # "loaded"
                   /\ files' = files
                   /\ selectedFile' = selectedFile]_vars

\* C9 witness: the load has ended on a URL that matches no chat, the FileMap
\* still empty and nothing selected.
C9_Witness ==
    /\ last.op = "load.getMessagesByUrlId"
    /\ loads[1].pc = "done" /\ loads[1].outcome = "nochat"
    /\ LastSegment(urlPath) # ""
    /\ \A p \in Paths : files[p] = NoDirent
    /\ selectedFile = NoPath

\* the durable id of the chat the URL's last segment resolves to: the record
\* with that primary key, else the record with that urlId
DurableId(seg) ==
    IF seg \in ChatKeys /\ chats[seg] # NoChat
    THEN seg
    ELSE IF \E k \in ChatKeys : chats[k] # NoChat /\ chats[k].urlId = seg
         THEN CHOOSE k \in ChatKeys : chats[k] # NoChat /\ chats[k].urlId = seg
         ELSE Undefined

\* C10: the load resolves the URL's last segment as a primary id first and as
\* a urlId second, and writes to the FileMap the snapshots whose chatId is the
\* resolved record's id, and nothing else.
C10_LoadUsesDurableId ==
    [][\A i \in 1..Len(loads) :
          /\ (loads[i].pc # "getFilesByChatId" /\ loads'[i].pc = "getFilesByChatId")
             => /\ loads'[i].entryId = DurableId(LastSegment(urlPath))
                /\ loads'[i].entryId # Undefined
          /\ (loads[i].pc = "getFilesByChatId" /\ loads'[i].pc = "done")
             => \A p \in Paths :
                   LET snaps == {j \in SnapshotsOf(DurableId(LastSegment(urlPath))) :
                                    fileHistory[j].filePath = p}
                   IN  IF snaps = {}
                       THEN files'[p] = files[p]
                       ELSE \E j \in snaps :
                               files'[p] = FileDirent(fileHistory[j].fileContent)]_vars

\* C10 witness: opened at /chat/x, the load has resolved chat 1 by its urlId
\* and loaded a.ts from chat 1, not b.ts stored under the key x.
C10_Witness ==
    /\ last.op = "load.getFilesByChatId"
    /\ loads[1].outcome = "loaded"
    /\ loads[1].candidate = "x" /\ loads[1].entryId = "1"
    /\ files[FilePath("a.ts")].type = "file"
    /\ files[FilePath("b.ts")] = NoDirent

\* the content of the first and of the last snapshot of path p in snaps
FirstContent(snaps, p) ==
    snaps[CHOOSE j \in 1..Len(snaps) :
              /\ snaps[j].filePath = p
              /\ \A k \in 1..(j - 1) : snaps[k].filePath # p].fileContent

LastContent(snaps, p) ==
    snaps[CHOOSE j \in 1..Len(snaps) :
              /\ snaps[j].filePath = p
              /\ \A k \in (j + 1)..Len(snaps) : snaps[k].filePath # p].fileContent

\* a load that has just written the snapshots of its chat
LoadWrites(i) ==
    /\ i \in 1..Len(loads)
    /\ loads[i].pc = "getFilesByChatId"
    /\ loads'[i].pc = "done" /\ loads'[i].outcome = "loaded"

\* C11 as stated: after the load every path with a snapshot holds the content
\* of its FIRST snapshot in getFilesByChatId's order, and the selected file is
\* the path of the first snapshot returned.
C11_LoadTakesFirstSnapshot ==
    [][\A i \in 1..Len(loads) :
          LoadWrites(i) =>
              LET snaps == GetFilesByChatId(fileHistory, loads[i].entryId)
              IN  /\ \A j \in 1..Len(snaps) :
                         files'[snaps[j].filePath] =
                             FileDirent(FirstContent(snaps, snaps[j].filePath))
                  /\ selectedFile' = snaps[1].filePath]_vars

\* C11 amended: after the load every path with a snapshot holds the content of
\* its LAST snapshot in getFilesByChatId's order (each snapshot overwrites the
\* one before), and the selected file is the path of the first snapshot
\* returned.
C11_LoadTakesLastSnapshot ==
    [][\A i \in 1..Len(loads) :
          LoadWrites(i) =>
              LET snaps == GetFilesByChatId(fileHistory, loads[i].entryId)
              IN  /\ \A j \in 1..Len(snaps) :
                         files'[snaps[j].filePath] =
                             FileDirent(LastContent(snaps, snaps[j].filePath))
                  /\ selectedFile' = snaps[1].filePath]_vars

\* C11 witness: chat 1 held a.ts twice, "x" first and "y" after it; the load
\* has left "y" in the FileMap and a.ts selected.
C11_Witness ==
    /\ last.op = "load.getFilesByChatId"
    /\ loads[1].outcome = "loaded" /\ loads[1].entryId = "1"
    /\ LET snaps == GetFilesByChatId(fileHistory, "1")
       IN  /\ Len(snaps) >= 2
           /\ snaps[1].filePath = FilePath("a.ts") /\ snaps[1].fileContent = "x"
           /\ snaps[2].filePath = FilePath("a.ts") /\ snaps[2].fileContent = "y"
           /\ LastContent(snaps, FilePath("a.ts")) = "y"
    /\ files[FilePath("a.ts")] = FileDirent("y")
    /\ selectedFile = FilePath("a.ts")

\* the FileMap path and entry of the j-th entry of an upload's archive
PathOfEntry(u, j) == ArchivePath(u.entries[j].relativePath)

DirentOfEntry(u, j) == FileDirent(u.entries[j].content)

\* the promise handleProjectUpload returned for call i settles in this step
Settles(i, state) ==
    /\ i \in 1..Len(projectUploads')
    /\ projectUploads'[i].promise = state
    /\ i > Len(projectUploads) \/ projectUploads[i].promise = "pending"

\* C12: when the promise handleProjectUpload returned for a .zip file
\* resolves, the FileMap holds every non-directory entry of the archive at
\* /home/project/<relative path>, as a text file with the entry's content.
C12_ZipUploadResolvedHasEntries ==
    [][\A i \in 1..Len(projectUploads') :
          (Settles(i, "resolved") /\ projectUploads'[i].ext = "zip")
              => \A j \in FileEntries(projectUploads'[i].entries) :
                     files'[PathOfEntry(projectUploads'[i], j)] =
                         DirentOfEntry(projectUploads'[i], j)]_vars

\* a strictly increasing sequence of entry positions
InIteratorOrder(ws) == \A a, b \in 1..Len(ws) : a < b => ws[a] < ws[b]

\* the last non-directory entry in the archive's iteration order
LastFileEntry(entries) ==
    CHOOSE j \in FileEntries(entries) : \A k \in FileEntries(entries) : k <= j

\* C13: a ZIP extraction writes its entries in the archive iterator's order,
\* and once it has written all of them the selected file is the last
\* non-directory entry in that order, whatever order the decodes completed in.
C13_ZipSelectsLastEntryIterated ==
    [][\A i \in 1..Len(projectUploads) :
          (/\ projectUploads[i].ext = "zip"
           /\ Len(projectUploads'[i].written) > Len(projectUploads[i].written))
              => /\ InIteratorOrder(projectUploads'[i].written)
                 /\ (projectUploads'[i].pc = "done" /\ projectUploads'[i].failed = {})
                        => selectedFile' =
                               PathOfEntry(projectUploads[i],
                                           LastFileEntry(projectUploads[i].entries))]_vars

\* the extraction of call i fails in this step: the archive does not load,
\* the codec binary is unreadable, or an entry cannot be decoded
ExtractionFails(i) ==
    /\ last'.op \in {"zip.loadAsync", "zip.file.async", "rar.loadWasmBinary", "rar.extract"}
    /\ last'.call = i
    /\ last'.result = "failed"

\* the step takes nothing out of the FileMap: every path keeps its entry or
\* holds an entry the step has just written
NoRollback(i) ==
    \A p \in Paths :
        \/ files'[p] = files[p]
        \/ \E j \in Range(projectUploads'[i].written) \ Range(projectUploads[i].written) :
               p = PathOfEntry(projectUploads[i], j)
                   /\ files'[p] = DirentOfEntry(projectUploads[i], j)

\* C14: when an extraction fails, at the load of the archive or at the decode
\* of one entry, the promise handleProjectUpload returned is rejected, and the
\* files written before the failure stay in the FileMap.
C14_ExtractionFailureRejects ==
    [][\A i \in 1..Len(projectUploads) :
          ExtractionFails(i)
              => /\ projectUploads'[i].promise = "rejected"
                 /\ NoRollback(i)]_vars

\* downloadZip builds its archive in this step
DownloadBuilds == download.pc # "generateAsync" /\ download'.pc = "generateAsync"

\* the text files of the FileMap, as archive entries named by their path
\* below /home/project/
TextFileEntries(fm) ==
    {Entry(SubSeq(p, 3, Len(p)), FALSE, fm[p].content) :
        p \in {q \in Paths : fm[q].type = "file" /\ ~fm[q].isBinary}}

IsProperPrefix(a, b) == Len(a) < Len(b) /\ SubSeq(b, 1, Len(a)) = a

\* C15 as stated: the archive's entries are exactly the text files of the
\* FileMap, and downloadZip leaves the FileMap, the selection and the unsaved
\* set as they were.
C15_DownloadZipEntriesAreTextFiles ==
    [][DownloadBuilds
          => /\ download'.zip = TextFileEntries(files)
             /\ UNCHANGED <<files, selectedFile, unsavedFiles>>]_vars

\* C15 amended: the archive's non-directory entries are exactly the text files
\* of the FileMap, its directory entries are the folders above those files and
\* nothing else, and downloadZip leaves the FileMap, the selection and the
\* unsaved set as they were, when it builds the archive and when it saves it.
C15_DownloadZipPacksTextFiles ==
    [][/\ DownloadBuilds
          => /\ {e \in download'.zip : ~e.dir} = TextFileEntries(files)
             /\ \A e \in download'.zip :
                    e.dir => \E f \in TextFileEntries(files) :
                                 IsProperPrefix(e.relativePath, f.relativePath)
             /\ \A f \in TextFileEntries(files) :
                    \A k \in 1..(Len(f.relativePath) - 1) :
                        Entry(SubSeq(f.relativePath, 1, k), TRUE, "") \in download'.zip
             /\ UNCHANGED <<files, selectedFile, unsavedFiles>>
       /\ (download.pc = "generateAsync" /\ download'.pc = "saved")
          => /\ download'.zip = download.zip
             /\ UNCHANGED <<files, selectedFile, unsavedFiles>>]_vars

\* C15 witness: over the folder src, src/a.ts = "x", a binary a.ts and
\* b.ts = "y", the download has packed src/, src/a.ts and b.ts.
C15_Witness ==
    /\ last.op = "downloadZip"
    /\ files[ArchivePath(<<"src">>)] = FolderDirent
    /\ files[FilePath("a.ts")] = BinaryDirent
    /\ download.zip = {Entry(<<"src">>, TRUE, ""), Entry(<<"src", "a.ts">>, FALSE, "x"),
                       Entry(<<"b.ts">>, FALSE, "y")}

\* the primary keys of the records in chats, and those that spell a number
KeysPresent == {k \in ChatKeys : chats[k] # NoChat}

NumericKeys == {n \in KeyNumbers : ToString(n) \in KeysPresent}

AllKeysNumeric == \A k \in KeysPresent : \E n \in KeyNumbers : ToString(n) = k

\* the largest number in S, 0 for the empty set
MaxOf(S) == IF S = {} THEN 0 ELSE CHOOSE m \in S : \A n \in S : n <= m

\* getNextId runs in this step
GetNextIdReturns == last'.op = "getNextId"

\* C16: over a chats collection whose keys all spell numbers (the case of a
\* key that does not is C17's), getNextId returns the decimal string of the
\* largest key plus one, "1" for the empty collection, and leaves chats as it
\* was.
C16_GetNextIdIsMaxPlusOne ==
    [][(GetNextIdReturns /\ AllKeysNumeric)
          => /\ last'.result = ToString(MaxOf(NumericKeys) + 1)
             /\ KeysPresent = {} => last'.result = "1"
             /\ chats' = chats]_vars

\* C16 witness: chats holds the key "2" alone, and getNextId has returned "3".
C16_Witness ==
    /\ last.op = "getNextId"
    /\ KeysPresent = {"2"}
    /\ last.result = "3"

\* C17: over a chats collection with a key that does not spell a number,
\* getNextId takes that key for 0 and still returns the decimal string of the
\* largest numeric key (0 when there is none) plus one.
C17_NonNumericKeyIsIgnored ==
    [][(GetNextIdReturns /\ ~AllKeysNumeric)
          => last'.result = ToString(MaxOf(NumericKeys) + 1)]_vars

\* the urlIds of the records in chats
UrlIdsUsed == {chats[k].urlId : k \in {j \in KeysPresent : chats[j].urlId # Undefined}}

\* the suffixes a probe over the collection may reach
ProbeRange == 2..(Cardinality(ChatKeys) + 2)

\* C18: in a sequence of getUrlId calls, a call with a candidate an earlier
\* call had returns a slug that differs from every slug returned before, is
\* not in use as a urlId, and is candidate-k for some k >= 2.
C18_RepeatedCandidateGetsFreshSlug ==
    \A b \in 1..Len(issued) :
        (\E a \in 1..(b - 1) : issued[a].candidate = issued[b].candidate)
            => /\ \A a \in 1..(b - 1) : issued[a].slug # issued[b].slug
               /\ issued[b].slug \notin UrlIdsUsed
               /\ \E k \in ProbeRange : issued[b].slug = Slug(issued[b].candidate, k)

\* C19: getUrlId returns the candidate when no record has it as urlId, and
\* otherwise candidate-k for the smallest k >= 2 that no record has as urlId;
\* the slug returned is no record's urlId, the probe ends within as many
\* steps as there are urlIds, and chats is left as it was.
C19_GetUrlIdProbesSmallestFree ==
    [][last'.op = "getUrlId"
          => LET candidate == last'.arg
                 slug == last'.result
             IN  /\ candidate \notin UrlIdsUsed => slug = candidate
                 /\ candidate \in UrlIdsUsed
                        => \E k \in ProbeRange :
                               /\ slug = Slug(candidate, k)
                               /\ \A m \in 2..(k - 1) : Slug(candidate, m) \in UrlIdsUsed
                               /\ k <= Cardinality(UrlIdsUsed) + 1
                 /\ slug \notin UrlIdsUsed
                 /\ chats' = chats]_vars

\* C19 witness: with the urlIds c and c-2 in use, getUrlId("c") has probed
\* past c-2 and returned c-3.
C19_Witness ==
    /\ last.op = "getUrlId" /\ last.arg = "c"
    /\ UrlIdsUsed = {"c", "c-2"}
    /\ last.result = "c-3"

\* a setMessages call over a record an earlier setMessages call had put
\* resolves in this step
SetMessagesAgain ==
    /\ last'.op = "setMessages" /\ last'.result = "resolved"
    /\ last'.replaced # NoChat
    /\ chats[last'.arg.id] = last'.replaced

\* C20: a second setMessages with the same id leaves exactly one record under
\* that id, holding the messages, urlId and description of the second call (a
\* urlId or description it leaves out is undefined, not the first call's),
\* and leaves the records under other ids as they were.
C20_SetMessagesOverwrites ==
    [][SetMessagesAgain
          => LET call == last'.arg
             IN  /\ Cardinality({k \in ChatKeys : chats'[k] # NoChat
                                                 /\ chats'[k].id = call.id}) = 1
                 /\ chats'[call.id].messages = call.messages
                 /\ chats'[call.id].urlId = call.urlId
                 /\ chats'[call.id].description = call.description
                 /\ \A k \in ChatKeys \ {call.id} : chats'[k] = chats[k]]_vars

\* C20 witness: the record of chat 1 held m1 under the urlId c with a
\* description; a second call with m2 alone has left m2 and neither.
C20_Witness ==
    /\ last.op = "setMessages" /\ last.result = "resolved"
    /\ last.arg.id = "1" /\ last.arg.messages = "m2"
    /\ last.replaced # NoChat
    /\ last.replaced.messages = "m1"
    /\ last.replaced.urlId = "c" /\ last.replaced.description = "d"
    /\ chats["1"].messages = "m2"
    /\ chats["1"].urlId = Undefined /\ chats["1"].description = Undefined

(***************************************************************************)
(* Claims: the unique urlId, lookups and the file history                  *)
(***************************************************************************)
\* no two records of chats under different ids have the same defined urlId
UrlIdsDistinct(db) ==
    \A j \in ChatKeys, k \in ChatKeys :
        (j # k /\ db[j] # NoChat /\ db[k] # NoChat /\ db[j].urlId # Undefined)
            => db[j].urlId # db[k].urlId

\* the setMessages call of this step hands a record under one id the defined
\* urlId a record under another id has
SetMessagesUnderUsedUrlId ==
    /\ last'.op = "setMessages"
    /\ last'.arg.urlId # Undefined
    /\ \E k \in KeysPresent \ {last'.arg.id} : chats[k].urlId = last'.arg.urlId

\* C21: in every reachable state no two chats records under different ids
\* share a defined urlId; a setMessages that would give a second record a
\* urlId in use is rejected and leaves chats as it was, also when it is the
\* second of two creations that both got the slug from getUrlId before
\* either wrote.
C21_UrlIdIsUnique ==
    /\ [] UrlIdsDistinct(chats)
    /\ [][SetMessagesUnderUsedUrlId
             => (last'.result = "rejected" /\ chats' = chats)]_vars
    /\ [][(last'.op = "setMessages" /\ last'.result = "rejected")
             => SetMessagesUnderUsedUrlId]_vars

\* C21 witness: chat 1 holds the urlId c; the setMessages that was to create
\* chat 2 under c as well was rejected, and chat 2 does not exist.
C21_Witness ==
    /\ last.op = "setMessages" /\ last.result = "rejected"
    /\ last.arg.id = "2" /\ last.arg.urlId = "c"
    /\ chats["1"] # NoChat /\ chats["1"].urlId = "c"
    /\ chats["2"] = NoChat

\* what getMessages(id) is to return over chats: the record under the key id,
\* else the record whose urlId is id, else nothing
Expected(id) ==
    IF id \in KeysPresent
    THEN chats[id]
    ELSE IF id \in UrlIdsUsed
         THEN chats[CHOOSE k \in KeysPresent : chats[k].urlId = id]
         ELSE NoChat

\* C22 as claimed: getMessages(id) resolves, for every id and the empty
\* string too, with the record under the key id when there is one (also when
\* another record has id as urlId), else with the record whose urlId is id,
\* else with undefined.
C22_GetMessagesPrefersPrimaryKey ==
    last.op = "getMessages"
        => (last.result = "resolved" /\ last.value = Expected(last.id))

\* C22: for every non-empty id getMessages(id) resolves with the record under
\* the key id when there is one (also when another record has id as urlId),
\* else with the record whose urlId is id, else with undefined;
\* getMessages("") is rejected.
C22_GetMessagesOfNonEmptyId ==
    last.op = "getMessages"
        => IF last.id = ""
           THEN last.result = "rejected"
           ELSE last.result = "resolved" /\ last.value = Expected(last.id)

\* C22 witness: chat 2 has the urlId 1, and getMessages("1") has resolved
\* with chat 1.
C22_Witness ==
    /\ last.op = "getMessages" /\ last.id = "1"
    /\ chats["1"] # NoChat /\ chats["2"] # NoChat
    /\ chats["2"].urlId = "1"
    /\ last.result = "resolved" /\ last.value = chats["1"]
    /\ last.value.id = "1"

\* C23: deleteById(id) takes the record under the key id out of chats and
\* nothing else: every other chats record and every fileHistory record, those
\* of the chat id included, stay as they were, and getFilesByChatId(id)
\* returns after the delete what it returned before.
C23_DeleteByIdDoesNotCascade ==
    [][last'.op = "deleteById"
          => LET id == last'.arg
             IN  /\ chats'[id] = NoChat
                 /\ \A k \in ChatKeys \ {id} : chats'[k] = chats[k]
                 /\ fileHistory' = fileHistory
                 /\ GetFilesByChatId(fileHistory', id) = GetFilesByChatId(fileHistory, id)]_vars

\* C23 witness: chat 1 was deleted; chat 2 is there, and so are the two
\* snapshots saved for chat 1.
C23_Witness ==
    /\ last.op = "deleteById" /\ last.arg = "1"
    /\ chats["1"] = NoChat /\ chats["2"] # NoChat
    /\ Len(GetFilesByChatId(fileHistory, "1")) = 2

\* the records of the file history with the chat id
RecordsOf(fh, chatId) == {n \in 1..Len(fh) : fh[n].chatId = chatId}

\* C24: saveFileInHistory adds one record, under the next fileId, holding the
\* call's chatId, path and content, and leaves every record there was as it
\* was, one of the same chat and path too, so the chat has one record more and
\* every other chat as many as before; getFilesByChatId(chatId) resolves with
\* the records of that chat, all of them and no other, in fileId order.
C24_SaveFileInHistoryAppends ==
    /\ [][last'.op = "saveFileInHistory"
             => /\ Len(fileHistory') = Len(fileHistory) + 1
                /\ last'.fileId = Len(fileHistory) + 1
                /\ \A n \in 1..Len(fileHistory) : fileHistory'[n] = fileHistory[n]
                /\ fileHistory'[last'.fileId] =
                       [chatId |-> last'.chatId, filePath |-> last'.filePath,
                        fileContent |-> last'.fileContent]
                /\ \A c \in ChatKeys :
                       Cardinality(RecordsOf(fileHistory', c)) =
                           Cardinality(RecordsOf(fileHistory, c))
                               + (IF c = last'.chatId THEN 1 ELSE 0)]_vars
    /\ [][last'.op = "getFilesByChatId"
             => /\ \A n \in 1..last'.count : last'.records[n].chatId = last'.chatId
                /\ last'.count = Cardinality(RecordsOf(fileHistory, last'.chatId))
                /\ \A n \in RecordsOf(fileHistory, last'.chatId) :
                       \E m \in 1..last'.count : last'.records[m] = fileHistory[n]
                /\ fileHistory' = fileHistory]_vars

\* C24 witness: a.ts was saved twice for chat 1, and getFilesByChatId("1")
\* has resolved with the two records.
C24_Witness ==
    /\ last.op = "getFilesByChatId" /\ last.chatId = "1"
    /\ last.count = 2
    /\ last.records[1].filePath = last.records[2].filePath
    /\ last.records[1].fileContent = "x" /\ last.records[2].fileContent = "y"

\* C28: the id getNextId returns has no file history: getFilesByChatId of it
\* is empty, whatever setMessages, deleteById and saveFileInHistory calls
\* came before.
C28_NextIdHasNoFileHistory ==
    last.op = "getNextId" => GetFilesByChatId(fileHistory, last.result) = <<>>

(***************************************************************************)
(* Claims: the artifact list                                               *)
(***************************************************************************)
\* the messageIds the artifacts map has an artifact under
ArtifactKeys == {m \in MessageIds : ArtifactExists(artifacts, m)}

\* the runner of an artifact is the one created with it, and runners are
\* numbered as they are created: the artifact of m was created before that
\* of n
CreatedBefore(m, n) == artifacts[m].runner < artifacts[n].runner

\* C30: artifactIdList holds the messageIds that are keys of the artifacts
\* map, all of them and no other, each once, in the order in which their
\* artifacts were first added; firstArtifact is the artifact created first,
\* and undefined when there is none.
C30_ArtifactIdListMatchesArtifacts ==
    /\ Range(artifactIdList) = ArtifactKeys
    /\ Len(artifactIdList) = Cardinality(ArtifactKeys)
    /\ \A i \in 1..Len(artifactIdList), j \in 1..Len(artifactIdList) :
           i < j => CreatedBefore(artifactIdList[i], artifactIdList[j])
    /\ IF ArtifactKeys = {}
       THEN FirstArtifact(artifacts, artifactIdList) = NoArtifact
       ELSE \E m \in ArtifactKeys :
               /\ FirstArtifact(artifacts, artifactIdList) = artifacts[m]
               /\ \A n \in ArtifactKeys \ {m} : CreatedBefore(m, n)

\* C30 witness: the artifact of m2 was added before that of m1, m2 was added
\* once more, and the list is m2, m1 with m2's artifact first.
C30_Witness ==
    /\ last.op = "addArtifact" /\ last.result = "duplicate" /\ last.messageId = "m2"
    /\ artifactIdList = <<"m2", "m1">>
    /\ FirstArtifact(artifacts, artifactIdList) = artifacts["m2"]
    /\ artifacts["m2"].runner = 1

(***************************************************************************)
(* Claims: saving against edits, saveAllFiles                              *)
(***************************************************************************)
\* the buffer of p holds an edit other than the content c
BufferNewerThan(buf, p, c) == buf[p] # NoEdit /\ buf[p] # c

\* C27: when saveFile(p) completes and the buffer of p differs from the
\* content it wrote (the buffer was edited while the write was awaited), p is
\* in unsavedFiles, and a flag p had before the completion is not cleared.
C27_SaveKeepsNewerBufferUnsaved ==
    [][last'.op = "saveFile.resume"
          => \A s \in pendingSaves \ pendingSaves' :
                 BufferNewerThan(editBuffer', s.path, s.value)
                    => /\ GetFile(files', s.path).content = s.value
                       /\ Unsaved(s.path)'
                       /\ Unsaved(s.path) => Unsaved(s.path)']_vars

(***************************************************************************)
(* Claims: the upload of a file                                            *)
(***************************************************************************)
\* the upload a step takes out of the pipeline: it is suspended before the
\* step and no upload is after it
Leaves(u) == BagIn(u, uploads) /\ uploads' = uploads (-) SetToBag({u})

\* the snapshot an upload is to append under the chat the URL resolves to
SnapshotOfUpload(u) ==
    [chatId |-> DurableId(LastSegment(urlPath)), filePath |-> u.path,
     fileContent |-> u.content]

\* the step has the store opened (an upload past openDatabase had it opened
\* before) and the URL's last segment resolves to a chat
StoreOpensAndChatResolves ==
    /\ ~(last'.op = "upload.openDatabase" /\ last'.result = "failed")
    /\ DurableId(LastSegment(urlPath)) # Undefined

\* C25: handleFileUpload(file) writes the file entry of the file's text at
\* /home/project/<file.name>, isBinary false, and selects the path in one
\* step, whatever the store and the URL are; after that the history gets one
\* record, of the resolved chat's durable id and the upload's path and
\* content, if and only if the store opens and the URL's last segment
\* resolves to a chat by id or else by urlId, and no record otherwise.
C25_UploadWritesThenAppends ==
    /\ [][last'.op = "handleFileUpload"
             => /\ \E n \in FileNames : last'.path = ProjectRoot \o <<n>>
                /\ files'[last'.path] = FileDirent(last'.content)
                /\ selectedFile' = last'.path
                /\ fileHistory' = fileHistory
                /\ \E u \in BagToSet(uploads') :
                       u.path = last'.path /\ u.content = last'.content]_vars
    /\ [][\A u \in BagToSet(uploads) :
             Leaves(u)
                => IF StoreOpensAndChatResolves
                   THEN fileHistory' = Append(fileHistory, SnapshotOfUpload(u))
                   ELSE fileHistory' = fileHistory]_vars
    /\ [][fileHistory' # fileHistory => \E u \in BagToSet(uploads) : Leaves(u)]_vars

\* C25 witness: opened at /chat/x, which is chat 1's urlId, b.ts was uploaded
\* with y, written and selected, and its snapshot was appended under chat 1.
C25_Witness ==
    /\ last.op = "upload.saveFileInHistory"
    /\ LastSegment(urlPath) = "x"
    /\ files[FilePath("b.ts")] = FileDirent("y")
    /\ selectedFile = FilePath("b.ts")
    /\ fileHistory[Len(fileHistory)] =
           [chatId |-> "1", filePath |-> FilePath("b.ts"), fileContent |-> "y"]
    /\ uploads = EmptyBag

(***************************************************************************)
(* saveAllFiles                                                            *)
(***************************************************************************)
\* the activation has ended, by finishing its loop or by rejecting
SaveAllEnded == saveAll.pc \in {"done", "rejected"}

\* C26: saveAllFiles attempts saveFile for every path that was in unsavedFiles
\* when it was called, one after the other in insertion order, and a save that
\* fails does not keep the remaining paths from being attempted; when no save
\* fails and no other operation runs in between, unsavedFiles is empty
\* afterwards.
C26_SaveAllFilesAttemptsEveryPath ==
    /\ [][last'.op = "saveAllFiles" => saveAll'.snapshot = unsavedFiles]_vars
    /\ [][last'.op = "saveAllFiles.resume"
            => /\ saveAll'.snapshot = saveAll.snapshot
               /\ saveAll'.next > saveAll.next
               /\ saveAll.snapshot[saveAll.next] \notin Range(unsavedFiles')]_vars
    /\ [](SaveAllEnded => Attempted(saveAll) = saveAll.snapshot)
    /\ [](saveAll.pc = "done" /\ Uninterrupted => unsavedFiles = <<>>)

(***************************************************************************)
(* Uploads, then a bootstrap at the same URL                               *)
(***************************************************************************)
\* the last handleFileUpload call for the file name of call k
MostRecentUpload(k) ==
    CHOOSE j \in 1..Len(fileReaders) :
        /\ fileReaders[j].name = fileReaders[k].name
        /\ \A i \in (j + 1)..Len(fileReaders) : fileReaders[i].name # fileReaders[k].name

\* the uploads were made on the page left behind, each appended its snapshot,
\* and the new store's bootstrap has run with the database open
BootstrappedAfterUploads ==
    /\ fileReaders # <<>>
    /\ \A k \in 1..Len(fileReaders) : fileReaders[k].state = "closed"
    /\ Len(fileHistory) = Len(fileReaders)
    /\ \A i \in 1..Len(loads) : loads[i].pc \in {"done", "returned"}
    /\ loads[1].outcome # "unavailable"

\* C29: when files were uploaded with handleFileUpload at a URL that resolves
\* to a chat and every upload has appended its snapshot, a new WorkbenchStore
\* bootstrapped at the same URL ends with every uploaded path in its FileMap,
\* holding the content of the most recent upload to that path.
C29_ReloadRestoresMostRecentUploads ==
    BootstrappedAfterUploads
        => \A k \in 1..Len(fileReaders) :
               files[FilePath(fileReaders[k].name)]
                   = FileDirent(fileReaders[MostRecentUpload(k)].content)

====
